---- MODULE Spec2Model ----
(***************************************************************************)
(* Proposal lifecycle of the Smart Vaults client: one client (its index,   *)
(* its calls spend / approve / revoke_approval / finalize and its event    *)
(* ingestion) coordinating with the co-signers of one vault over a relay.  *)
(***************************************************************************)
EXTENDS Integers, FiniteSets, Sequences, TLC

\* ------------------------------------------------------------------ bounds
MaxProposals == 2       \* proposal identifiers 1..MaxProposals
MaxEvents == 5          \* events the relays hold at most
MaxBroadcasts == 2      \* cap of the per-proposal broadcast counter
MaxUtxos == 2           \* unspent outputs of the vault's wallet
MaxCalls == 2           \* spend calls the client runs at the same time
MaxInvites == 3                     \* invite events on the relays

\* ------------------------------------------------------------------ domain
ProposalIds == 1..MaxProposals
Utxos == 1..MaxUtxos                \* the outpoints manager.get_utxos returns
Calls == 1..MaxCalls
Signers == {"A", "B", "C"}          \* the public keys of the descriptor
Me == "A"                           \* keys.public_key() of this client
Peers == Signers \ {Me}
SharedKey == "K"                    \* public key of the vault's shared key
\* the keys Keys::generate can return: the vault's shared key and another one
GeneratedKeys == {SharedKey, "K2"}
VaultId == "V"
\* the vault's descriptor: a 2-of-3 threshold over Signers
Descriptor == [threshold |-> Cardinality(Signers) - 1, keys |-> Signers]

NoEvent == [kind |-> "none"]
\* no row of table proposals; a row carries the proposal's status and type,
\* the input of its transaction and the id of the event it was saved from
NoRow == [status |-> "None", ptype |-> "None", input |-> 0, eid |-> NoEvent]
Idle == [pc |-> "idle", pid |-> 0, status |-> "None", ptype |-> "None", input |-> 0, n |-> 0,
         checked |-> FALSE, sent |-> FALSE, published |-> FALSE]
NoRet == [op |-> "none", pid |-> 0, result |-> "none"]
NoSpend == [pc |-> "idle", pid |-> 0, input |-> 0]

VARIABLES
  vaults,              \* storage: vault identifiers in the index
  proposals,           \* table proposals: proposal_id -> row (or NoRow)
  approved_proposals,  \* table approved_proposals: rows (approval_id, proposal_id, public_key)
  events,              \* table events: event_id -> [event, deleted]
  relay,               \* events published to the relays
  fin,                 \* the finalize call in flight: position and local `proposal`
  ret,                 \* what the call returning in this step returned (NoRet: none returned)
  broadcasts,          \* backend: how often each proposal's tx was handed to transaction_broadcast
  wallet,              \* manager: proposals whose tx was inserted into the wallet cache
  frozen_utxos,        \* table frozen_utxos: rows (utxo, proposal_id)
  notifications,       \* table notifications: ids of the events with a notification
  spends,              \* the spend calls in flight: position, proposal id and input
  policies,            \* manager: the vaults whose policy is loaded
  shared_keys,         \* table shared_keys: rows (policy_id, shared_key)
  signers,             \* table signers: signer_id -> signer
  shared_signer_invites, \* storage: pending shared-signer invites, identifier -> invite
  shared_signers,      \* table shared_signers: rows (shared_signer_id, owner_public_key, shared_signer)
  my_shared_signers,   \* table my_shared_signers: rows (signer_id, shared_signer_id, public_key)
  ctx,                 \* desktop Context: stage and breadcrumb
  core_signer          \* the last call of CoreSigner::new: its arguments and what it returned

vars == <<vaults, proposals, approved_proposals, events, relay, fin, ret,
          broadcasts, wallet, frozen_utxos, notifications, spends, policies,
          shared_keys, signers, shared_signer_invites, shared_signers,
          my_shared_signers, ctx, core_signer>>

\* ------------------------------------------------------------------ events
\* An event is identified by the hash of its content: author, kind, tags,
\* content and the fields that make two publications of the same content
\* differ (created_at, the encryption nonce), here the counter n.
EventId(e) == e
ProposalEvent(pid, status, ptype, input, n) ==
  [kind |-> "proposal", author |-> SharedKey, pid |-> pid,
   status |-> status, ptype |-> ptype, input |-> input, target |-> NoEvent, n |-> n]
ApprovalEvent(author, pid, n) ==
  [kind |-> "approval", author |-> author, pid |-> pid,
   status |-> "None", ptype |-> "None", input |-> 0, target |-> NoEvent, n |-> n]
\* variant: the deletion event is built without the tag of its target
DeletionEventUntagged(author, target, n) ==
  [kind |-> "deletion", author |-> author, pid |-> 0,
   status |-> "None", ptype |-> "None", input |-> 0, target |-> NoEvent, n |-> n]
DeletionEvent(author, target, n) ==
  [kind |-> "deletion", author |-> author, pid |-> 0,
   status |-> "None", ptype |-> "None", input |-> 0, target |-> target, n |-> n]
VaultEvent(author) ==
  [kind |-> "vault", author |-> author, pid |-> 0,
   status |-> "None", ptype |-> "None", input |-> 0, target |-> NoEvent, n |-> 1]
\* v2::vault::build_event: the vault with its shared key, signed by its creator
VaultEventWithKey(author, shared_key, n) ==
  [kind |-> "vault", author |-> author, pid |-> 0, status |-> "None", ptype |-> "None",
   input |-> 0, target |-> NoEvent, n |-> n, shared_key |-> shared_key]
\* variant: proposals and approvals are published in the clear
encryption_key_none(e) == "none"
\* the key the content of an event is encrypted with: proposals and approvals
\* are encrypted with the vault's shared key
encryption_key(e) == IF e.kind \in {"proposal", "approval"} THEN SharedKey ELSE "none"
\* the row of table proposals an ingested or published proposal event is saved as
ProposalRow(e) == [status |-> e.status, ptype |-> e.ptype, input |-> e.input, eid |-> EventId(e)]
\* ---------------------------------------------------------------- Context
\* the stages of the desktop application the model distinguishes
Stages == {"Dashboard", "Vaults", "Vault", "Spend", "Signers"}

\* Stage::default
Stage_default == "Dashboard"

\* Context::new
Context_new(stage) == [stage |-> stage, breadcrumb |-> <<stage>>]

\* Vec::contains
contains(breadcrumb, stage) == \E i \in 1..Len(breadcrumb) : breadcrumb[i] = stage

\* Iterator::position: the number of elements before the first one equal to stage
position(breadcrumb, stage) ==
  (CHOOSE i \in 1..Len(breadcrumb) :
      breadcrumb[i] = stage /\ \A j \in 1..(i - 1) : breadcrumb[j] # stage) - 1

\* variant: the stage is pushed and the breadcrumb is never cut
set_stage_pushed(c, stage) ==
  [stage |-> stage, breadcrumb |-> Append(c.breadcrumb, stage)]

\* Context::set_stage
set_stage(c, stage) ==
  LET taken == IF contains(c.breadcrumb, stage)
               THEN SubSeq(c.breadcrumb, 1, position(c.breadcrumb, stage))
               ELSE c.breadcrumb
  IN [stage |-> stage, breadcrumb |-> Append(taken, stage)]

\* Context::reset_breadcrumb
reset_breadcrumb(c) == [c EXCEPT !.breadcrumb = <<>>]

\* ------------------------------------------------------------------ Store
\* variant: no proposal is reported as indexed
proposal_exists_never(tbl, pid) == FALSE

\* SELECT EXISTS(SELECT 1 FROM proposals WHERE proposal_id = ?)
proposal_exists(tbl, pid) == pid \in DOMAIN tbl /\ tbl[pid] # NoRow

\* variant: INSERT OR REPLACE, the row of an existing proposal is overwritten
save_proposal_replace(tbl, pid, row) == [tbl EXCEPT ![pid] = row]

\* variant: the INSERT is not executed
save_proposal_skipped(tbl, pid, row) == tbl

\* INSERT OR IGNORE INTO proposals
save_proposal(tbl, pid, row) ==
  IF proposal_exists(tbl, pid) THEN tbl ELSE [tbl EXCEPT ![pid] = row]

approved_proposal_exists(tbl, aid) == \E a \in tbl : a.approval_id = aid

\* INSERT OR IGNORE INTO approved_proposals, primary key approval_id
save_approved_proposal(tbl, pid, author, aid) ==
  IF approved_proposal_exists(tbl, aid) THEN tbl
  ELSE tbl \cup {[approval_id |-> aid, proposal_id |-> pid, public_key |-> author]}

\* variant: the SELECT without its WHERE proposal_id = ? clause
get_approved_proposals_all(tbl, pid) == tbl

\* SELECT ... FROM approved_proposals WHERE proposal_id = ?
get_approved_proposals_by_proposal_id(tbl, pid) == {a \in tbl : a.proposal_id = pid}

\* INSERT OR IGNORE INTO events
save_event(tbl, e) ==
  IF EventId(e) \in DOMAIN tbl THEN tbl
  ELSE [i \in DOMAIN tbl \cup {EventId(e)} |->
          IF i = EventId(e) THEN [event |-> e, deleted |-> FALSE] ELSE tbl[i]]

\* variant: no event is reported as deleted
event_was_deleted_never(tbl, id) == FALSE

\* SELECT deleted FROM events WHERE event_id = ? (no row: not deleted)
event_was_deleted(tbl, id) == id \in DOMAIN tbl /\ tbl[id].deleted

\* UPDATE events SET deleted = 1 WHERE event_id = ?
set_event_as_deleted(tbl, id) ==
  [i \in DOMAIN tbl |-> IF i = id THEN [tbl[i] EXCEPT !.deleted = TRUE] ELSE tbl[i]]

\* variant: the DELETE is not executed, the approval row stays
delete_approval_skipped(tbl, aid) == tbl

\* DELETE FROM approved_proposals WHERE approval_id = ?
delete_approval(tbl, aid) == {a \in tbl : a.approval_id # aid}

\* INSERT INTO frozen_utxos (utxo, proposal_id)
freeze_utxo(tbl, utxo, pid) == tbl \cup {[utxo |-> utxo, proposal_id |-> pid]}

\* the outpoints the table frozen_utxos holds for the vault
get_frozen_utxos(tbl) == {r.utxo : r \in tbl}

\* SmartVaults::get_utxos: the wallet's UTXOs, each with its frozen flag
get_utxos(frozen) == {[utxo |-> u, frozen |-> u \in get_frozen_utxos(frozen)] : u \in Utxos}

save_notification(tbl, id) == tbl \cup {id}

\* INSERT OR IGNORE INTO signers (signer_id, signer)
save_signer(tbl, signer_id, signer) ==
  IF signer_id \in DOMAIN tbl THEN tbl
  ELSE [i \in DOMAIN tbl \cup {signer_id} |-> IF i = signer_id THEN signer ELSE tbl[i]]

\* SELECT EXISTS(SELECT 1 FROM shared_keys WHERE policy_id = ?)
shared_key_exists_for_policy(tbl, policy_id) == \E r \in tbl : r.policy_id = policy_id

\* variant: INSERT OR REPLACE INTO shared_keys
save_shared_key_replace(tbl, policy_id, shared_key) ==
  {r \in tbl : r.policy_id # policy_id}
     \cup {[policy_id |-> policy_id, shared_key |-> shared_key]}

\* INSERT OR IGNORE INTO shared_keys (policy_id, shared_key)
save_shared_key(tbl, policy_id, shared_key) ==
  IF shared_key_exists_for_policy(tbl, policy_id) THEN tbl
  ELSE tbl \cup {[policy_id |-> policy_id, shared_key |-> shared_key]}

\* SELECT shared_key FROM shared_keys WHERE policy_id = ?, NotFound without a row
get_shared_key(tbl, policy_id) ==
  IF ~shared_key_exists_for_policy(tbl, policy_id) THEN "NotFound"
  ELSE (CHOOSE r \in tbl : r.policy_id = policy_id).shared_key

\* DELETE FROM notifications WHERE event_id = ?
delete_notification(tbl, id) == tbl \ {id}

\* the tables of the index as one value
Index ==
  [proposals |-> proposals, approved_proposals |-> approved_proposals, events |-> events,
   frozen_utxos |-> frozen_utxos, notifications |-> notifications]

\* the tables of the index become those of idx
SetIndex(idx) ==
  /\ proposals' = idx.proposals
  /\ approved_proposals' = idx.approved_proposals
  /\ events' = idx.events
  /\ frozen_utxos' = idx.frozen_utxos
  /\ notifications' = idx.notifications

\* variant: the frozen UTXOs of the deleted proposal are left in their table
delete_proposal_keep_frozen(idx, pid) ==
  [idx EXCEPT !.proposals = [@ EXCEPT ![pid] = NoRow],
              !.approved_proposals = {a \in @ : a.proposal_id # pid},
              !.events = set_event_as_deleted(@, idx.proposals[pid].eid),
              !.notifications = delete_notification(@, idx.proposals[pid].eid)]

\* variant: the approvals of the deleted proposal are left in their table
delete_proposal_keep_approvals(idx, pid) ==
  [idx EXCEPT !.proposals = [@ EXCEPT ![pid] = NoRow],
              !.frozen_utxos = {r \in @ : r.proposal_id # pid},
              !.events = set_event_as_deleted(@, idx.proposals[pid].eid),
              !.notifications = delete_notification(@, idx.proposals[pid].eid)]

\* Store::delete_proposal: the event is marked deleted, then the notification,
\* the proposal row, its approvals and its frozen UTXOs are deleted
delete_proposal(idx, pid) ==
  [idx EXCEPT !.events = set_event_as_deleted(@, idx.proposals[pid].eid),
              !.notifications = delete_notification(@, idx.proposals[pid].eid),
              !.proposals = [@ EXCEPT ![pid] = NoRow],
              !.approved_proposals = {a \in @ : a.proposal_id # pid},
              !.frozen_utxos = {r \in @ : r.proposal_id # pid}]

\* ------------------------------------------------------------------ Proposal
\* the descriptor layer: do the signatures of these keys satisfy the policy?
PolicySatisfied(keys) == Cardinality(keys \cap Descriptor.keys) >= Descriptor.threshold

ApprovalKeys(rows) == {a.public_key : a \in rows}

\* Proposal::approve
proposal_approve(row) ==
  IF row.status = "Completed" THEN "ProposalAlreadyFinalized" ELSE "Ok"

\* Proposal::finalize: the error, or "Ok" when the status becomes Completed
proposal_finalize(row, rows) ==
  IF row.status = "Completed" THEN "ProposalAlreadyFinalized"
  ELSE IF PolicySatisfied(ApprovalKeys(rows)) THEN "Ok"
  ELSE "NotEnoughApprovals"

\* Proposal::try_finalize(..).is_ok(), the `signed` flag of GetProposal
signed(props, apps, pid) ==
  proposal_finalize(props[pid], get_approved_proposals_by_proposal_id(apps, pid)) = "Ok"

is_broadcastable(ptype) == ptype = "Spending"

\* SmartVaults::get_proposal_by_id: the proposal with its `signed` flag, or NotFound
get_proposal_by_id(props, apps, pid) ==
  IF ~proposal_exists(props, pid) THEN [result |-> "NotFound"]
  ELSE [result |-> "Ok", proposal |-> props[pid], signed |-> signed(props, apps, pid)]

\* SmartVaults::get_proposals: every proposal of the index with its `signed` flag
get_proposals(props, apps) ==
  {[id |-> pid, proposal |-> props[pid], signed |-> signed(props, apps, pid)] :
     pid \in {q \in DOMAIN props : proposal_exists(props, q)}}

\* Proposal::vault_id: every proposal of the model is a proposal of the one vault
proposal_vault_id(row) == VaultId

\* variant: the flag is computed from the approvals of every proposal
get_proposals_by_vault_id_any_approval(props, apps, vault_id) ==
  {[id |-> pid, proposal |-> props[pid],
    signed |-> proposal_finalize(props[pid], apps) = "Ok"] :
     pid \in {q \in DOMAIN props :
                proposal_exists(props, q) /\ proposal_vault_id(props[q]) = vault_id}}

\* SmartVaults::get_proposals_by_vault_id
get_proposals_by_vault_id(props, apps, vault_id) ==
  {[id |-> pid, proposal |-> props[pid], signed |-> signed(props, apps, pid)] :
     pid \in {q \in DOMAIN props :
                proposal_exists(props, q) /\ proposal_vault_id(props[q]) = vault_id}}

\* ------------------------------------------------------------------ client
\* client.send_event: the event reaches the relays and the client's event database
Publish(e) == relay' = relay \cup {e}

\* the relays hold fewer events than the model allows
CanPublish == Cardinality(relay) < MaxEvents

\* the counter of the next publication with this content
Nonce(same) == 1 + Cardinality({e \in relay : same = [e EXCEPT !.n = 0]})

Return(op, pid, result) == ret' = [op |-> op, pid |-> pid, result |-> result]

\* identifiers no proposal has: not in the index, on the relays or in a spend in flight
UnusedPids == {p \in ProposalIds : /\ ~proposal_exists(proposals, p)
                                   /\ ~\E e \in relay : e.kind = "proposal" /\ e.pid = p
                                   /\ ~\E c \in Calls : spends[c].pid = p}

\* internal_spend: the UTXOs handed to manager.spend as not spendable
frozen_exclusions(frozen, skip) ==
  IF ~skip THEN {u \in Utxos : u \in get_frozen_utxos(frozen)} ELSE {}

\* the fee rates a caller can pass: a rate in sat/vB, or a priority with its
\* target in blocks
FeeRates == [kind : {"Rate", "Priority"}, value : 0..1]

\* FeeRate::is_valid: the rate, or the target of the priority, is not zero
is_valid(fee_rate) == fee_rate.value > 0

\* FeeRate::min_relay_fee
min_relay_fee == [kind |-> "Rate", value |-> 1]

\* variant: the fee rate is validated after the backend calls
internal_spend_validate_last(frozen, skip, fee_rate, estimateOk) ==
  IF fee_rate.kind = "Priority" /\ ~estimateOk THEN "BlockchainError"
  ELSE IF Utxos \ frozen_exclusions(frozen, skip) = {}
  THEN "InsufficientFunds"
  ELSE IF ~is_valid(fee_rate) THEN "InvalidFeeRate"
  ELSE "Ok"

\* internal_spend: the error it returns, or "Ok" when the transaction is built.
\* estimateOk: blockchain.estimate_fee answers
internal_spend(frozen, skip, fee_rate, estimateOk) ==
  IF ~is_valid(fee_rate) THEN "InvalidFeeRate"
  ELSE IF fee_rate.kind = "Priority" /\ ~estimateOk THEN "BlockchainError"
  ELSE IF Utxos \ frozen_exclusions(frozen, skip) = {} THEN "InsufficientFunds"
  ELSE "Ok"

\* manager.spend: the wallet can build the transaction on input u
manager_spend(u, excluded) == u \in Utxos \ excluded

\* the lowest outpoint the wallet may spend (the lowest of all when none is left)
FirstSpendable(excluded) ==
  IF Utxos \ excluded = {} THEN CHOOSE u \in Utxos : \A v \in Utxos : u <= v
  ELSE CHOOSE u \in Utxos \ excluded : \A v \in Utxos \ excluded : u <= v

\* variant: building the transaction freezes its input
SpendBuild_freezing(c, u, skip, fee_rate, estimateOk) ==
  /\ spends[c].pc = "idle"
  /\ internal_spend(frozen_utxos, skip, fee_rate, estimateOk) = "Ok"
  /\ manager_spend(u, frozen_exclusions(frozen_utxos, skip))
  /\ UnusedPids # {}
  /\ spends' = [spends EXCEPT ![c] =
                  [pc |-> "publish", input |-> u,
                   pid |-> CHOOSE q \in UnusedPids : \A r \in UnusedPids : q <= r]]
  /\ frozen_utxos' = freeze_utxo(frozen_utxos, u,
                                 CHOOSE q \in UnusedPids : \A r \in UnusedPids : q <= r)
  /\ ret' = NoRet
  /\ UNCHANGED <<vaults, proposals, approved_proposals, events, relay, fin, broadcasts,
                 wallet, notifications, policies,
                 shared_keys, signers,
                 shared_signer_invites, shared_signers, my_shared_signers, ctx, core_signer>>

\* spend, up to the built proposal: internal_spend and Proposal::pending
SpendBuild(c, u, skip, fee_rate, estimateOk) ==
  /\ spends[c].pc = "idle"
  /\ LET res == internal_spend(frozen_utxos, skip, fee_rate, estimateOk) IN
     IF res # "Ok"
     THEN /\ Return("spend", 0, res)
          /\ UNCHANGED spends
     ELSE /\ manager_spend(u, frozen_exclusions(frozen_utxos, skip))
          /\ UnusedPids # {}
          /\ spends' = [spends EXCEPT ![c] =
                          [pc |-> "publish", input |-> u,
                           pid |-> CHOOSE q \in UnusedPids : \A r \in UnusedPids : q <= r]]
          /\ ret' = NoRet
  /\ UNCHANGED <<vaults, proposals, approved_proposals, events, relay, fin, broadcasts,
                 wallet, frozen_utxos, notifications, policies,
                 shared_keys, signers,
                 shared_signer_invites, shared_signers, my_shared_signers, ctx, core_signer>>

\* SmartVaults::estimate_tx_vsize: internal_spend at the minimum relay fee,
\* the size of the built transaction is returned
EstimateTxVsize(u, skip) ==
  /\ LET res == internal_spend(frozen_utxos, skip, min_relay_fee, TRUE) IN
     /\ res = "Ok" => manager_spend(u, frozen_exclusions(frozen_utxos, skip))
     /\ Return("estimate_tx_vsize", 0, res)
  /\ UNCHANGED <<vaults, proposals, approved_proposals, events, relay, fin, broadcasts,
                 wallet, frozen_utxos, notifications, spends, policies,
                 shared_keys, signers,
                 shared_signer_invites, shared_signers, my_shared_signers, ctx, core_signer>>

\* v2::proposal::build_event of the Pending proposal of spend call c
PendingEvent(c) == ProposalEvent(spends[c].pid, "Pending", "Spending", spends[c].input, 1)

\* spend: the vault lookup and client.send_event(event)? of the Pending proposal
SpendPublish(c, sendOk) ==
  /\ spends[c].pc = "publish"
  /\ CanPublish
  /\ IF VaultId \notin vaults
     THEN /\ Return("spend", spends[c].pid, "NotFound")
          /\ spends' = [spends EXCEPT ![c] = NoSpend]
          /\ UNCHANGED <<events, relay>>
     ELSE IF ~sendOk
     THEN /\ Return("spend", spends[c].pid, "SendError")
          /\ spends' = [spends EXCEPT ![c] = NoSpend]
          /\ UNCHANGED <<events, relay>>
     ELSE /\ Publish(PendingEvent(c))
          /\ events' = save_event(events, PendingEvent(c))
          /\ spends' = [spends EXCEPT ![c].pc = "index"]
          /\ ret' = NoRet
  /\ UNCHANGED <<vaults, proposals, approved_proposals, fin, broadcasts, wallet,
                 frozen_utxos, notifications, policies,
                 shared_keys, signers,
                 shared_signer_invites, shared_signers, my_shared_signers, ctx, core_signer>>

\* variant: the row is written and the inputs are not frozen
SpendIndex_row_only(c) ==
  /\ spends[c].pc = "index"
  /\ proposals' = save_proposal(proposals, spends[c].pid, ProposalRow(PendingEvent(c)))
  /\ Return("spend", spends[c].pid, "Ok")
  /\ spends' = [spends EXCEPT ![c] = NoSpend]
  /\ UNCHANGED <<vaults, approved_proposals, events, relay, fin, broadcasts, wallet,
                 frozen_utxos, notifications, policies,
                 shared_keys, signers,
                 shared_signer_invites, shared_signers, my_shared_signers, ctx, core_signer>>

\* spend: storage.save_proposal(proposal.id(), proposal), Ok(..)
SpendIndex(c) ==
  /\ spends[c].pc = "index"
  /\ proposals' = save_proposal(proposals, spends[c].pid, ProposalRow(PendingEvent(c)))
  /\ frozen_utxos' = freeze_utxo(frozen_utxos, spends[c].input, spends[c].pid)
  /\ Return("spend", spends[c].pid, "Ok")
  /\ spends' = [spends EXCEPT ![c] = NoSpend]
  /\ UNCHANGED <<vaults, approved_proposals, events, relay, fin, broadcasts, wallet,
                 notifications, policies,
                 shared_keys, signers,
                 shared_signer_invites, shared_signers, my_shared_signers, ctx, core_signer>>

\* delete_proposal_by_id: the events the database query returns for the filter
\* kind = proposal, author = shared key, identifier = pid
proposal_events(evts, pid) ==
  {id \in DOMAIN evts : /\ evts[id].event.kind = "proposal"
                        /\ evts[id].event.author = SharedKey
                        /\ evts[id].event.pid = pid}

\* the age of a proposal event among those of its proposal: the Pending
\* event is the oldest, the Completed events follow in publication order
EventAge(e) == IF e.status = "Completed" THEN e.n ELSE 0

\* limit(1) of the query: the newest of the events
first_event(ids) == CHOOSE id \in ids : \A other \in ids : EventAge(other) <= EventAge(id)

\* SmartVaults::delete_proposal_by_id
DeleteProposal(p, sendOk) ==
  /\ CanPublish
  /\ IF \/ ~proposal_exists(proposals, p)
        \/ VaultId \notin vaults
        \/ proposal_events(events, p) = {}
     THEN /\ Return("delete_proposal_by_id", p, "NotFound")
          /\ UNCHANGED <<proposals, approved_proposals, events, relay,
                         frozen_utxos, notifications>>
     ELSE LET t == first_event(proposal_events(events, p)) IN
          IF events[t].event.author # SharedKey
          THEN /\ Return("delete_proposal_by_id", p, "TryingToDeleteNotOwnedEvent")
               /\ UNCHANGED <<proposals, approved_proposals, events, relay,
                              frozen_utxos, notifications>>
          ELSE IF ~sendOk
          THEN /\ Return("delete_proposal_by_id", p, "SendError")
               /\ UNCHANGED <<proposals, approved_proposals, events, relay,
                              frozen_utxos, notifications>>
          ELSE LET e == DeletionEvent(SharedKey, t, Nonce(DeletionEvent(SharedKey, t, 0))) IN
               /\ Publish(e)
               /\ SetIndex(delete_proposal([Index EXCEPT !.events = save_event(@, e)], p))
               /\ Return("delete_proposal_by_id", p, "Ok")
  /\ UNCHANGED <<vaults, fin, broadcasts, wallet, spends, policies,
                 shared_keys, signers,
                 shared_signer_invites, shared_signers, my_shared_signers, ctx, core_signer>>

\* the event the vault was created with, as the event database holds it
vault_events(evts) == {id \in DOMAIN evts : evts[id].event.kind = "vault"}

\* variant: the author of the event is not compared
is_own_event_any(author) == TRUE

\* delete_vault_by_id: author == keys.public_key()
is_own_event(author) == author = Me

\* --------------------------------------------------------------- Signer
\* the fingerprints, types, names and descriptions of the signers of this
\* client; None is the absent argument of edit_signer_metadata
SignerCores == {"f1"}
SignerTypes == {"Seed", "AirGap"}
SignerNames == {"", "a"}
SignerDescriptions == {"", "x"}
None == "None"
SignerValues ==
  [name : SignerNames, description : SignerDescriptions, core : SignerCores,
   type : SignerTypes]

\* variant: the signer is rebuilt from its core and type, under the new name
change_name_rebuilt(signer, name) ==
  [name |-> name, description |-> "", core |-> signer.core, type |-> signer.type]

\* Signer::change_name
change_name(signer, name) == [signer EXCEPT !.name = name]

\* Signer::change_description
change_description(signer, description) == [signer EXCEPT !.description = description]

\* Signer::generate_identifier: a hash of the network and the fingerprint
generate_identifier(signer) == signer.core

\* CoreSigner::compute_id
compute_id(signer) == signer.core

\* v2::signer::build_event, signed with this client's own keys
SignerEvent(signer, n) ==
  [kind |-> "signer", author |-> Me, identifier |-> generate_identifier(signer),
   signer |-> signer, n |-> n]

\* SmartVaults::save_signer
SaveSigner(signer, sendOk) ==
  /\ CanPublish
  /\ IF ~sendOk
     THEN /\ Return("save_signer", 0, "SendError")
          /\ UNCHANGED <<events, relay, signers>>
     ELSE LET e == SignerEvent(signer, Nonce(SignerEvent(signer, 0))) IN
          /\ Publish(e)
          /\ events' = save_event(events, e)
          /\ signers' = save_signer(signers, compute_id(signer), signer)
          /\ Return("save_signer", 0, "Ok")
  /\ UNCHANGED <<vaults, proposals, approved_proposals, fin, broadcasts, wallet,
                 frozen_utxos, notifications, spends, policies, shared_keys,
                 shared_signer_invites, shared_signers, my_shared_signers, ctx, core_signer>>

\* the signer edit_signer_metadata publishes and saves
edited_signer(signer, name, description) ==
  LET named == IF name # None THEN change_name(signer, name) ELSE signer IN
  IF description # None THEN change_description(named, description) ELSE named

\* SmartVaults::edit_signer_metadata
EditSignerMetadata(signer_id, name, description, sendOk) ==
  /\ CanPublish
  /\ IF signer_id \notin DOMAIN signers
     THEN /\ Return("edit_signer_metadata", 0, "NotFound")
          /\ UNCHANGED <<events, relay, signers>>
     ELSE IF ~sendOk
     THEN /\ Return("edit_signer_metadata", 0, "SendError")
          /\ UNCHANGED <<events, relay, signers>>
     ELSE LET signer == edited_signer(signers[signer_id], name, description)
              e == SignerEvent(signer, Nonce(SignerEvent(signer, 0))) IN
          /\ Publish(e)
          /\ events' = save_event(events, e)
          /\ signers' = save_signer(signers, signer_id, signer)
          /\ Return("edit_signer_metadata", 0, "Ok")
  /\ UNCHANGED <<vaults, proposals, approved_proposals, fin, broadcasts, wallet,
                 frozen_utxos, notifications, spends, policies, shared_keys,
                 shared_signer_invites, shared_signers, my_shared_signers, ctx, core_signer>>

\* -------------------------------------------------------- Shared signer
\* fingerprints, networks and descriptor sets of the signers that are shared
Fingerprints == {"f1", "f2"}
Networks == {"bitcoin", "testnet"}
DescriptorSets == {"d1", "d2"}
CoreSignerValues ==
  [fingerprint : Fingerprints, network : Networks, descriptors : DescriptorSets]
SharedSignerValues == [owner : Signers, receiver : Signers, core : CoreSignerValues]

\* ------------------------------------------------------------------ CoreSigner
\* the number of descriptors a call of CoreSigner::new is given at most
MaxDescriptors == 2

\* ChildNumber: the components of a derivation path
ChildNumbers == [hardened : BOOLEAN, index : 0..1]

\* the first component of the paths: the purpose, hardened
PurposeChild == [hardened |-> TRUE, index |-> 48]

\* DescriptorPublicKey::full_derivation_path: None, or Some(path)
DerivationPaths ==
  {[some |-> FALSE, path |-> <<>>], [some |-> TRUE, path |-> <<>>],
   [some |-> TRUE, path |-> <<PurposeChild>>]}
  \cup {[some |-> TRUE, path |-> <<PurposeChild, c>>] : c \in ChildNumbers}
  \cup {[some |-> TRUE, path |-> <<PurposeChild, c, [hardened |-> TRUE, index |-> 0]>>] :
           c \in ChildNumbers}

\* DescriptorPublicKey: its master fingerprint and its full derivation path
DescriptorPublicKeys ==
  [master_fingerprint : Fingerprints, full_derivation_path : DerivationPaths]

\* the values of a BTreeMap<Purpose, DescriptorPublicKey>, in the order of
\* their purposes
DescriptorMaps ==
  UNION {[1..k -> DescriptorPublicKeys] : k \in 0..MaxDescriptors}

\* no signer was built
NoSigner == [fingerprint |-> "none", descriptors |-> <<>>]

\* CoreSigner::new was not called
NoCoreSigner ==
  [called |-> FALSE, fingerprint |-> "none", descriptors |-> <<>>, network |-> "none",
   result |-> "none", signer |-> NoSigner]

\* CoreSigner::new, the match on the second component of the path
network_match(path, network) ==
  IF Len(path) < 2 THEN FALSE
  ELSE IF ~path[2].hardened THEN FALSE
  ELSE IF network = "bitcoin" THEN path[2].index = 0
  ELSE path[2].index = 1

\* CoreSigner::new, the body of the loop: the error the descriptor is
\* rejected with, or "Ok"
check_descriptor(fingerprint, descriptor, network) ==
  IF fingerprint # descriptor.master_fingerprint THEN "FingerprintNotMatch"
  ELSE IF ~descriptor.full_derivation_path.some THEN "DerivationPathNotFound"
  ELSE IF ~network_match(descriptor.full_derivation_path.path, network)
  THEN "NetworkNotMatch"
  ELSE "Ok"

\* CoreSigner::new, the loop from descriptor i on
RECURSIVE CoreSigner_new_from(_, _, _, _)
CoreSigner_new_from(fingerprint, descriptors, network, i) ==
  IF i > Len(descriptors)
  THEN [result |-> "Ok",
        signer |-> [fingerprint |-> fingerprint, descriptors |-> descriptors]]
  ELSE IF check_descriptor(fingerprint, descriptors[i], network) # "Ok"
  THEN [result |-> check_descriptor(fingerprint, descriptors[i], network),
        signer |-> NoSigner]
  ELSE CoreSigner_new_from(fingerprint, descriptors, network, i + 1)

\* variant: only the first descriptor is checked
CoreSigner_new_first_checked(fingerprint, descriptors, network) ==
  IF descriptors # <<>> /\ check_descriptor(fingerprint, descriptors[1], network) # "Ok"
  THEN [result |-> check_descriptor(fingerprint, descriptors[1], network),
        signer |-> NoSigner]
  ELSE [result |-> "Ok",
        signer |-> [fingerprint |-> fingerprint, descriptors |-> descriptors]]

\* CoreSigner::new
CoreSigner_new(fingerprint, descriptors, network) ==
  CoreSigner_new_from(fingerprint, descriptors, network, 1)

\* the signer this client holds when it starts to share
OwnSigner ==
  [name |-> "", description |-> "", type |-> "Seed",
   core |-> [fingerprint |-> "f1", network |-> "bitcoin", descriptors |-> "d1"]]

\* the cores other users share: one that differs from the other in its
\* descriptors only, and one of another fingerprint
SharedCores ==
  {[fingerprint |-> "f2", network |-> "bitcoin", descriptors |-> "d1"],
   [fingerprint |-> "f2", network |-> "bitcoin", descriptors |-> "d2"],
   [fingerprint |-> "f1", network |-> "testnet", descriptors |-> "d1"]}

\* SharedSigner::new
SharedSigner_new(owner, receiver, core) ==
  [owner |-> owner, receiver |-> receiver, core |-> core]

\* SharedSigner::signer_id: the identifier of the signer that is shared
SharedSigner_signer_id(shared_signer) == <<shared_signer.core.network, shared_signer.core.fingerprint>>

\* hash::sha256, without collisions
sha256(unhashed) == unhashed

\* variant: the receiver is not part of the hashed text
nostr_public_identifier_without_receiver(shared_signer) ==
  sha256("shared-signer:" \o shared_signer.owner \o ":"
            \o shared_signer.core.fingerprint \o ":" \o shared_signer.core.network)

\* SharedSigner::nostr_public_identifier:
\* sha256 of "shared-signer:{owner}:{receiver}:{fingerprint}:{network}"
nostr_public_identifier(shared_signer) ==
  sha256("shared-signer:" \o shared_signer.owner \o ":" \o shared_signer.receiver \o ":"
            \o shared_signer.core.fingerprint \o ":" \o shared_signer.core.network)

\* the public keys of the key pairs Keys::generate returns, in the order of
\* the calls
EphemeralKeys == <<"E1", "E2", "E3", "E4", "E5", "E6", "E7", "E8">>

\* Keys::generate for a wrapper event: a key pair no event on the relays is
\* signed with
Keys_generate(rl) == EphemeralKeys[1 + Cardinality({e \in rl : e.kind = "wrapper"})]

\* the relays hold fewer invites than the model allows
CanInvite == Cardinality({e \in relay : e.kind = "wrapper"}) < MaxInvites

\* variant: the invitation is signed with the owner's identity key
build_invitation_event_by_owner(shared_signer, keys) ==
  [kind |-> "wrapper", author |-> shared_signer.owner,
   encrypted_to |-> shared_signer.receiver,
   tags |-> {[tag |-> "p", value |-> shared_signer.receiver],
             [tag |-> "expiration", value |-> "WRAPPER_EXPIRATION"]},
   content |-> [type |-> "SharedSignerInvite", shared_signer |-> shared_signer],
   n |-> 1]

\* v2::signer::shared::build_invitation_event; keys is the pair it generates
build_invitation_event(shared_signer, keys) ==
  [kind |-> "wrapper", author |-> keys,
   encrypted_to |-> shared_signer.receiver,
   tags |-> {[tag |-> "p", value |-> shared_signer.receiver],
             [tag |-> "expiration", value |-> "WRAPPER_EXPIRATION"]},
   content |-> [type |-> "SharedSignerInvite", shared_signer |-> shared_signer],
   n |-> 1]

\* VaultInvite::new
VaultInvite_new(vault, sender) == [vault |-> vault, sender |-> sender]

\* v2::vault::invite::build_event; keys is the pair it generates
vault_invite_build_event(invite, receiver, keys) ==
  [kind |-> "wrapper", author |-> keys,
   encrypted_to |-> receiver,
   tags |-> {[tag |-> "p", value |-> receiver],
             [tag |-> "expiration", value |-> "WRAPPER_EXPIRATION"]},
   content |-> [type |-> "VaultInvite", invite |-> invite],
   n |-> 1]

\* a user's client invites receiver to the vault
InviteToVault(sender, receiver) ==
  /\ CanPublish /\ CanInvite
  /\ Publish(vault_invite_build_event(VaultInvite_new(VaultId, sender), receiver,
                                      Keys_generate(relay)))
  /\ ret' = NoRet
  /\ UNCHANGED <<vaults, proposals, approved_proposals, events, fin, broadcasts, wallet,
                 frozen_utxos, notifications, spends, policies, shared_keys, signers,
                 shared_signer_invites, shared_signers, my_shared_signers, ctx, core_signer>>

\* SmartVaults::share_signer: this client invites receiver to its signer
ShareSigner(id, receiver, sendOk) ==
  /\ CanPublish /\ CanInvite
  /\ IF id \notin DOMAIN signers
     THEN /\ Return("share_signer", 0, "NotFound")
          /\ UNCHANGED relay
     ELSE IF ~sendOk
     THEN /\ Return("share_signer", 0, "SendError")
          /\ UNCHANGED relay
     ELSE /\ Publish(build_invitation_event(
                       SharedSigner_new(Me, receiver, signers[id].core),
                       Keys_generate(relay)))
          /\ Return("share_signer", 0, "Ok")
  /\ UNCHANGED <<vaults, proposals, approved_proposals, events, fin, broadcasts, wallet,
                 frozen_utxos, notifications, spends, policies, shared_keys, signers,
                 shared_signer_invites, shared_signers, my_shared_signers, ctx, core_signer>>

\* another user's client runs share_signer
PeerShareSigner(owner, receiver, core) ==
  /\ CanPublish /\ CanInvite
  /\ Publish(build_invitation_event(SharedSigner_new(owner, receiver, core),
                                    Keys_generate(relay)))
  /\ ret' = NoRet
  /\ UNCHANGED <<vaults, proposals, approved_proposals, events, fin, broadcasts, wallet,
                 frozen_utxos, notifications, spends, policies, shared_keys, signers,
                 shared_signer_invites, shared_signers, my_shared_signers, ctx, core_signer>>

\* the pending invites after the invite to shared_signer was stored: one
\* entry under the identifier of the shared signer
save_shared_signer_invite(tbl, shared_signer) ==
  [i \in DOMAIN tbl \cup {nostr_public_identifier(shared_signer)} |->
     IF i = nostr_public_identifier(shared_signer)
     THEN [shared_signer |-> shared_signer] ELSE tbl[i]]

\* the sync task handles a wrapper event: an invite encrypted to this client
\* becomes a pending invite, any other wrapper is skipped
HandleWrapper(e) ==
  /\ e \in relay
  /\ e.kind = "wrapper"
  /\ IF e.encrypted_to # Me
     THEN /\ Return("handle_event", 0, "Decrypt")
          /\ UNCHANGED <<events, shared_signer_invites>>
     ELSE /\ events' = save_event(events, e)
          /\ shared_signer_invites' =
                IF e.content.type = "SharedSignerInvite"
                THEN save_shared_signer_invite(shared_signer_invites, e.content.shared_signer)
                ELSE shared_signer_invites
          /\ ret' = NoRet
  /\ UNCHANGED <<vaults, proposals, approved_proposals, relay, fin, broadcasts, wallet,
                 frozen_utxos, notifications, spends, policies, shared_keys, signers,
                 shared_signers, my_shared_signers, ctx, core_signer>>

\* storage.delete_shared_signer_invite: the pending invites without the one
\* under id
delete_shared_signer_invite(tbl, id) == [i \in DOMAIN tbl \ {id} |-> tbl[i]]

\* the identifiers the user of this client can pass: those of the shared
\* signers other users may share with it
InviteIdentifiers ==
  {nostr_public_identifier(SharedSigner_new(owner, Me, core)) :
     owner \in Peers, core \in SharedCores}

\* variant: dismissing an invite publishes a deletion of the invite event
DeleteSharedSignerInvite_published(id) ==
  /\ CanPublish
  /\ \E e \in relay :
       /\ e.kind = "wrapper"
       /\ Publish(DeletionEvent(Me, e, 1))
  /\ shared_signer_invites' = delete_shared_signer_invite(shared_signer_invites, id)
  /\ Return("delete_shared_signer_invite", id,
            IF id \in DOMAIN shared_signer_invites THEN "true" ELSE "false")
  /\ UNCHANGED <<vaults, proposals, approved_proposals, events, fin, broadcasts,
                 wallet, frozen_utxos, notifications, spends, policies, shared_keys, signers,
                 shared_signers, my_shared_signers, ctx, core_signer>>

\* SmartVaults::delete_shared_signer_invite
DeleteSharedSignerInvite(id) ==
  /\ shared_signer_invites' = delete_shared_signer_invite(shared_signer_invites, id)
  /\ Return("delete_shared_signer_invite", id,
            IF id \in DOMAIN shared_signer_invites THEN "true" ELSE "false")
  /\ UNCHANGED <<vaults, proposals, approved_proposals, events, relay, fin, broadcasts,
                 wallet, frozen_utxos, notifications, spends, policies, shared_keys, signers,
                 shared_signers, my_shared_signers, ctx, core_signer>>

\* v2::signer::shared::build_event: the event that carries a shared signer,
\* signed by the client's signer
SharedSignerEvent(author, shared_signer, n) ==
  [kind |-> "shared_signer", author |-> author, shared_signer |-> shared_signer, n |-> n]

\* variant: the invite is deleted before the event is sent
AcceptSharedSignerInvite_delete_first(id, signerOk, sendOk) ==
  /\ CanPublish
  /\ IF ~signerOk
     THEN /\ Return("accept_shared_signer_invite", 0, "SignerNotConfigured")
          /\ UNCHANGED <<relay, shared_signer_invites>>
     ELSE IF id \notin DOMAIN shared_signer_invites
     THEN /\ Return("accept_shared_signer_invite", 0, "NotFound")
          /\ UNCHANGED <<relay, shared_signer_invites>>
     ELSE /\ shared_signer_invites' = delete_shared_signer_invite(shared_signer_invites, id)
          /\ IF ~sendOk
             THEN /\ Return("accept_shared_signer_invite", 0, "SendError")
                  /\ UNCHANGED relay
             ELSE /\ Publish(SharedSignerEvent(Me, shared_signer_invites[id].shared_signer, 1))
                  /\ Return("accept_shared_signer_invite", 0, "Ok")
  /\ UNCHANGED <<vaults, proposals, approved_proposals, events, fin, broadcasts,
                 wallet, frozen_utxos, notifications, spends, policies, shared_keys, signers,
                 shared_signers, my_shared_signers, ctx, core_signer>>

\* SmartVaults::accept_shared_signer_invite
AcceptSharedSignerInvite(id, signerOk, sendOk) ==
  /\ CanPublish
  /\ IF ~signerOk
     THEN /\ Return("accept_shared_signer_invite", 0, "SignerNotConfigured")
          /\ UNCHANGED <<relay, shared_signer_invites>>
     ELSE IF id \notin DOMAIN shared_signer_invites
     THEN /\ Return("accept_shared_signer_invite", 0, "NotFound")
          /\ UNCHANGED <<relay, shared_signer_invites>>
     ELSE IF ~sendOk
     THEN /\ Return("accept_shared_signer_invite", 0, "SendError")
          /\ UNCHANGED <<relay, shared_signer_invites>>
     ELSE LET shared_signer == shared_signer_invites[id].shared_signer
              e == SharedSignerEvent(Me, shared_signer,
                                     Nonce(SharedSignerEvent(Me, shared_signer, 0))) IN
          /\ Publish(e)
          /\ shared_signer_invites' = delete_shared_signer_invite(shared_signer_invites, id)
          /\ Return("accept_shared_signer_invite", 0, "Ok")
  /\ UNCHANGED <<vaults, proposals, approved_proposals, events, fin, broadcasts,
                 wallet, frozen_utxos, notifications, spends, policies, shared_keys, signers,
                 shared_signers, my_shared_signers, ctx, core_signer>>

\* SmartVaults::save_vault of the vault's descriptor; shared_key is the key
\* Keys::generate returns
SaveVault(shared_key, sendOk) ==
  /\ CanPublish
  /\ IF ~sendOk
     THEN /\ Return("save_vault", 0, "SendError")
          /\ UNCHANGED <<vaults, events, relay, policies, shared_keys>>
     ELSE LET e == VaultEventWithKey(Me, shared_key,
                                     Nonce(VaultEventWithKey(Me, shared_key, 0))) IN
          /\ Publish(e)
          /\ events' = save_event(events, e)
          /\ vaults' = vaults \cup {VaultId}
          /\ shared_keys' = save_shared_key(shared_keys, VaultId, shared_key)
          /\ policies' = policies \cup {VaultId}
          /\ Return("save_vault", 0, "Ok")
  /\ UNCHANGED <<proposals, approved_proposals, fin, broadcasts, wallet,
                 frozen_utxos, notifications, spends, signers,
                 shared_signer_invites, shared_signers, my_shared_signers, ctx, core_signer>>

\* SmartVaults::delete_vault_by_id
DeleteVault(sendOk) ==
  /\ CanPublish
  /\ IF vault_events(events) = {}
     THEN /\ Return("delete_vault_by_id", 0, "NotFound")
          /\ UNCHANGED <<vaults, events, relay, policies>>
     ELSE LET t == CHOOSE id \in vault_events(events) : TRUE IN
          IF ~is_own_event(events[t].event.author)
          THEN /\ Return("delete_vault_by_id", 0, "TryingToDeleteNotOwnedEvent")
               /\ UNCHANGED <<vaults, events, relay, policies>>
          ELSE IF ~sendOk
          THEN /\ Return("delete_vault_by_id", 0, "SendError")
               /\ UNCHANGED <<vaults, events, relay, policies>>
          ELSE LET e == DeletionEvent(Me, t, Nonce(DeletionEvent(Me, t, 0))) IN
               /\ Publish(e)
               /\ events' = save_event(events, e)
               /\ vaults' = vaults \ {VaultId}
               /\ policies' = policies \ {VaultId}
               /\ Return("delete_vault_by_id", 0, "Ok")
  /\ UNCHANGED <<proposals, approved_proposals, fin, broadcasts, wallet,
                 frozen_utxos, notifications, spends,
                 shared_keys, signers,
                 shared_signer_invites, shared_signers, my_shared_signers, ctx, core_signer>>

\* variant: the result of proposal.approve is dropped
ApproveResultIgnored(res) == TRUE

\* approve: the `?` of `proposal.approve(&seed)?` lets only Ok through
ApproveResultOk(res) == res = "Ok"

\* SmartVaults::approve
\* variant: approve does not read the vault of the proposal
Approve_vault_unread(p, sendOk) ==
  /\ CanPublish
  /\ IF ~proposal_exists(proposals, p)
     THEN /\ Return("approve", p, "NotFound")
          /\ UNCHANGED <<approved_proposals, events, relay>>
     ELSE IF ~ApproveResultOk(proposal_approve(proposals[p]))
     THEN /\ Return("approve", p, proposal_approve(proposals[p]))
          /\ UNCHANGED <<approved_proposals, events, relay>>
     ELSE IF ~sendOk
     THEN /\ Return("approve", p, "SendError")
          /\ UNCHANGED <<approved_proposals, events, relay>>
     ELSE LET e == ApprovalEvent(Me, p, Nonce(ApprovalEvent(Me, p, 0))) IN
          /\ Publish(e)
          /\ events' = save_event(events, e)
          /\ approved_proposals' = save_approved_proposal(approved_proposals, p, Me, EventId(e))
          /\ Return("approve", p, "Ok")
  /\ UNCHANGED <<vaults, proposals, fin, broadcasts, wallet, frozen_utxos, notifications, spends, policies,
                 shared_keys, signers,
                 shared_signer_invites, shared_signers, my_shared_signers, ctx, core_signer>>

\* SmartVaults::approve
Approve(p, sendOk) ==
  /\ CanPublish
  /\ IF ~proposal_exists(proposals, p) \/ VaultId \notin vaults
     THEN /\ Return("approve", p, "NotFound")
          /\ UNCHANGED <<approved_proposals, events, relay>>
     ELSE IF ~ApproveResultOk(proposal_approve(proposals[p]))
     THEN /\ Return("approve", p, proposal_approve(proposals[p]))
          /\ UNCHANGED <<approved_proposals, events, relay>>
     ELSE IF ~sendOk
     THEN /\ Return("approve", p, "SendError")
          /\ UNCHANGED <<approved_proposals, events, relay>>
     ELSE LET e == ApprovalEvent(Me, p, Nonce(ApprovalEvent(Me, p, 0))) IN
          /\ Publish(e)
          /\ events' = save_event(events, e)
          /\ approved_proposals' = save_approved_proposal(approved_proposals, p, Me, EventId(e))
          /\ Return("approve", p, "Ok")
  /\ UNCHANGED <<vaults, proposals, fin, broadcasts, wallet, frozen_utxos, notifications, spends, policies,
                 shared_keys, signers,
                 shared_signer_invites, shared_signers, my_shared_signers, ctx, core_signer>>

\* SmartVaults::revoke_approval
RevokeApproval(aid, sendOk) ==
  /\ CanPublish
  /\ aid \in DOMAIN events /\ events[aid].event.kind = "approval"
  /\ IF events[aid].event.author # Me
     THEN /\ Return("revoke_approval", events[aid].event.pid, "TryingToDeleteNotOwnedEvent")
          /\ UNCHANGED <<approved_proposals, events, relay, notifications>>
     ELSE IF ~sendOk
     THEN /\ Return("revoke_approval", events[aid].event.pid, "SendError")
          /\ UNCHANGED <<approved_proposals, events, relay, notifications>>
     ELSE LET e == DeletionEvent(Me, aid, Nonce(DeletionEvent(Me, aid, 0))) IN
          /\ Publish(e)
          /\ events' = set_event_as_deleted(save_event(events, e), aid)
          /\ notifications' = delete_notification(notifications, aid)
          /\ approved_proposals' = delete_approval(approved_proposals, aid)
          /\ Return("revoke_approval", events[aid].event.pid, "Ok")
  /\ UNCHANGED <<vaults, proposals, fin, broadcasts, wallet, frozen_utxos, spends, policies,
                 shared_keys, signers,
                 shared_signer_invites, shared_signers, my_shared_signers, ctx, core_signer>>

\* variant: the Completed event is published before the transaction is broadcast
finalize_next_publish_first(at, ptype) ==
  CASE at = "check" -> "publish"
    [] at = "publish" -> IF is_broadcastable(ptype) THEN "broadcast" ELSE "index"
    [] at = "broadcast" -> "index"
    [] OTHER -> "idle"

\* variant: the broadcast step is left out
finalize_next_no_broadcast(at, ptype) ==
  CASE at = "check" -> "publish"
    [] at = "publish" -> "index"
    [] OTHER -> "idle"

\* SmartVaults::finalize: the step that follows `at`
finalize_next(at, ptype) ==
  CASE at = "check" -> IF is_broadcastable(ptype) THEN "broadcast" ELSE "publish"
    [] at = "broadcast" -> "publish"
    [] at = "publish" -> "index"
    [] OTHER -> "idle"

\* variant: the result of proposal.finalize is dropped
FinalizeResultIgnored(res) == TRUE

\* finalize: the `?` of `proposal.finalize(approvals)?` lets only Ok through
FinalizeResultOk(res) == res = "Ok"

\* finalize, up to `proposal.finalize(approvals)?`
FinalizeCheck(p) ==
  /\ fin.pc = "idle"
  /\ IF ~proposal_exists(proposals, p) \/ VaultId \notin vaults
     THEN /\ Return("finalize", p, "NotFound")
          /\ UNCHANGED fin
     ELSE LET rows == get_approved_proposals_by_proposal_id(approved_proposals, p)
              res == proposal_finalize(proposals[p], rows) IN
          IF ~FinalizeResultOk(res)
          THEN /\ Return("finalize", p, res)
               /\ UNCHANGED fin
          ELSE /\ fin' = [pc |-> finalize_next("check", proposals[p].ptype), pid |-> p,
                          status |-> "Completed", ptype |-> proposals[p].ptype,
                          input |-> proposals[p].input, n |-> 0,
                          checked |-> (res = "Ok"), sent |-> FALSE, published |-> FALSE]
               /\ ret' = NoRet
  /\ UNCHANGED <<vaults, proposals, approved_proposals, events, relay, broadcasts, wallet,
                 frozen_utxos, notifications, spends, policies,
                 shared_keys, signers,
                 shared_signer_invites, shared_signers, my_shared_signers, ctx, core_signer>>

\* finalize: blockchain.transaction_broadcast(tx)?, then manager.insert_tx
FinalizeBroadcast(ok) ==
  /\ fin.pc = "broadcast"
  /\ IF ~ok
     THEN /\ Return("finalize", fin.pid, "BroadcastError")
          /\ fin' = Idle
          /\ UNCHANGED <<broadcasts, wallet>>
     ELSE /\ broadcasts[fin.pid] < MaxBroadcasts
          /\ broadcasts' = [broadcasts EXCEPT ![fin.pid] = @ + 1]
          /\ wallet' = wallet \cup {fin.pid}
          /\ fin' = [fin EXCEPT !.pc = finalize_next("broadcast", fin.ptype), !.sent = TRUE]
          /\ ret' = NoRet
  /\ UNCHANGED <<vaults, proposals, approved_proposals, events, relay,
                 frozen_utxos, notifications, spends, policies,
                 shared_keys, signers,
                 shared_signer_invites, shared_signers, my_shared_signers, ctx, core_signer>>

\* finalize: client.send_event(event)? of the Completed proposal
FinalizePublish(sendOk) ==
  /\ fin.pc = "publish"
  /\ CanPublish
  /\ IF ~sendOk
     THEN /\ Return("finalize", fin.pid, "SendError")
          /\ fin' = Idle
          /\ UNCHANGED <<events, relay>>
     ELSE LET e == ProposalEvent(fin.pid, fin.status, fin.ptype, fin.input,
                        Nonce(ProposalEvent(fin.pid, fin.status, fin.ptype, fin.input, 0))) IN
          /\ Publish(e)
          /\ events' = save_event(events, e)
          /\ fin' = [fin EXCEPT !.pc = finalize_next("publish", fin.ptype),
                                !.published = TRUE, !.n = e.n]
          /\ ret' = NoRet
  /\ UNCHANGED <<vaults, proposals, approved_proposals, broadcasts, wallet,
                 frozen_utxos, notifications, spends, policies,
                 shared_keys, signers,
                 shared_signer_invites, shared_signers, my_shared_signers, ctx, core_signer>>

\* finalize: storage.save_proposal(*proposal_id, proposal), Ok(())
FinalizeIndex ==
  /\ fin.pc = "index"
  /\ proposals' = save_proposal(proposals, fin.pid,
         ProposalRow(ProposalEvent(fin.pid, fin.status, fin.ptype, fin.input, fin.n)))
  /\ frozen_utxos' = freeze_utxo(frozen_utxos, fin.input, fin.pid)
  /\ Return("finalize", fin.pid, "Ok")
  /\ fin' = Idle
  /\ UNCHANGED <<vaults, approved_proposals, events, relay, broadcasts, wallet,
                 notifications, spends, policies,
                 shared_keys, signers,
                 shared_signer_invites, shared_signers, my_shared_signers, ctx, core_signer>>

\* ------------------------------------------------------------------ ingestion
\* the proposal whose row was saved from event id (0: none)
proposal_of_event(tbl, id) ==
  IF \E p \in DOMAIN tbl : tbl[p] # NoRow /\ tbl[p].eid = id
  THEN CHOOSE p \in DOMAIN tbl : tbl[p] # NoRow /\ tbl[p].eid = id
  ELSE 0

\* Store::delete_generic_event_id, the branches for proposals, approvals and
\* ids of no indexed entity
delete_generic_event_id(idx, id) ==
  IF proposal_of_event(idx.proposals, id) # 0
  THEN delete_proposal(idx, proposal_of_event(idx.proposals, id))
  ELSE IF approved_proposal_exists(idx.approved_proposals, id)
  THEN [idx EXCEPT !.events = set_event_as_deleted(@, id),
                   !.notifications = delete_notification(@, id),
                   !.approved_proposals = delete_approval(@, id)]
  ELSE [idx EXCEPT !.events = set_event_as_deleted(@, id)]

\* variant: a deletion is applied whoever signed it
deletion_authorized_any(evts, e) == TRUE

\* a deletion event is applied when its author is the author of its target
\* (a target the index has not seen cannot be compared)
deletion_authorized(evts, e) ==
  e.target \in DOMAIN evts => evts[e.target].event.author = e.author

\* the index after the sync task has handled event e
handle_event(idx, e) ==
  IF event_was_deleted(idx.events, EventId(e)) THEN idx
  ELSE LET saved == [idx EXCEPT !.events = save_event(@, e)] IN
       CASE e.kind = "proposal" ->
              [saved EXCEPT
                 !.proposals = save_proposal(@, e.pid, ProposalRow(e)),
                 !.frozen_utxos = freeze_utxo(@, e.input, e.pid),
                 !.notifications = IF proposal_exists(idx.proposals, e.pid) THEN @
                                   ELSE save_notification(@, EventId(e))]
         [] e.kind = "approval" ->
              [saved EXCEPT
                 !.approved_proposals = save_approved_proposal(@, e.pid, e.author, EventId(e)),
                 !.notifications = IF approved_proposal_exists(idx.approved_proposals, EventId(e))
                                   THEN @ ELSE save_notification(@, EventId(e))]
         [] OTHER ->
              IF deletion_authorized(saved.events, e)
              THEN delete_generic_event_id(saved, e.target)
              ELSE saved

\* the index after the sync task has handled the events s[i], s[i+1], ...
RECURSIVE Ingest(_, _, _)
Ingest(idx, s, i) ==
  IF i > Len(s) THEN idx ELSE Ingest(handle_event(idx, s[i]), s, i + 1)

\* the sync task handles one event received from a relay
\* the sync task can read the content of e: it is in the clear, or the index
\* holds the key it is encrypted with
can_decrypt(tbl, e) ==
  encryption_key(e) = "none" \/ get_shared_key(tbl, VaultId) = encryption_key(e)

HandleEvent(e) ==
  /\ e \in relay
  /\ IF ~can_decrypt(shared_keys, e)
     THEN /\ Return("handle_event", e.pid, "Decrypt")
          /\ UNCHANGED <<proposals, approved_proposals, events, frozen_utxos, notifications>>
     ELSE /\ IF VaultId \notin vaults
             THEN UNCHANGED <<proposals, approved_proposals, events, frozen_utxos,
                              notifications>>
             ELSE SetIndex(handle_event(Index, e))
          /\ ret' = NoRet
  /\ UNCHANGED <<vaults, relay, fin, broadcasts, wallet, spends, policies,
                 shared_keys, signers,
                 shared_signer_invites, shared_signers, my_shared_signers, ctx, core_signer>>

\* ------------------------------------------------------------------ co-signers
RelayProposal(p, status) == \E e \in relay : e.kind = "proposal" /\ e.pid = p /\ e.status = status

\* approvals on the relay that their author has not deleted
LiveApprovals(p) ==
  {e \in relay : /\ e.kind = "approval" /\ e.pid = p
                 /\ ~\E d \in relay : d.kind = "deletion" /\ d.target = EventId(e)
                                      /\ d.author = e.author}

\* a co-signer's client runs spend
PeerSpend(p, ptype, u) ==
  /\ p \in UnusedPids /\ \A q \in UnusedPids : p <= q
  /\ CanPublish
  /\ Publish(ProposalEvent(p, "Pending", ptype, u, 1))
  /\ ret' = NoRet
  /\ UNCHANGED <<vaults, proposals, approved_proposals, events, fin, broadcasts, wallet,
                 frozen_utxos, notifications, spends, policies,
                 shared_keys, signers,
                 shared_signer_invites, shared_signers, my_shared_signers, ctx, core_signer>>

\* a co-signer's client runs approve
PeerApprove(k, p) ==
  /\ CanPublish
  /\ RelayProposal(p, "Pending")
  /\ ~\E e \in LiveApprovals(p) : e.author = k
  /\ Publish(ApprovalEvent(k, p, Nonce(ApprovalEvent(k, p, 0))))
  /\ ret' = NoRet
  /\ UNCHANGED <<vaults, proposals, approved_proposals, events, fin, broadcasts, wallet,
                 frozen_utxos, notifications, spends, policies,
                 shared_keys, signers,
                 shared_signer_invites, shared_signers, my_shared_signers, ctx, core_signer>>

\* a co-signer publishes a deletion of an approval (its own, or someone else's)
PeerDelete(k, t) ==
  /\ CanPublish
  /\ t \in relay /\ t.kind = "approval"
  /\ ~\E d \in relay : d.kind = "deletion" /\ d.target = EventId(t) /\ d.author = k
  /\ Publish(DeletionEvent(k, EventId(t), Nonce(DeletionEvent(k, EventId(t), 0))))
  /\ ret' = NoRet
  /\ UNCHANGED <<vaults, proposals, approved_proposals, events, fin, broadcasts, wallet,
                 frozen_utxos, notifications, spends, policies,
                 shared_keys, signers,
                 shared_signer_invites, shared_signers, my_shared_signers, ctx, core_signer>>

\* a co-signer's client runs delete_proposal_by_id on proposal event t
PeerDeleteProposal(t) ==
  /\ CanPublish
  /\ t \in relay /\ t.kind = "proposal"
  /\ ~\E d \in relay : d.kind = "deletion" /\ d.target = EventId(t)
  /\ Publish(DeletionEvent(SharedKey, EventId(t), 1))
  /\ ret' = NoRet
  /\ UNCHANGED <<vaults, proposals, approved_proposals, events, fin, broadcasts, wallet,
                 frozen_utxos, notifications, spends, policies,
                 shared_keys, signers,
                 shared_signer_invites, shared_signers, my_shared_signers, ctx, core_signer>>

\* a co-signer's client runs finalize to the end
PeerFinalize(p) ==
  /\ CanPublish
  /\ RelayProposal(p, "Pending") /\ ~RelayProposal(p, "Completed")
  /\ PolicySatisfied({e.author : e \in LiveApprovals(p)})
  /\ \E e \in relay : /\ e.kind = "proposal" /\ e.pid = p
                      /\ Publish(ProposalEvent(p, "Completed", e.ptype, e.input,
                                     Nonce(ProposalEvent(p, "Completed", e.ptype, e.input, 0))))
  /\ ret' = NoRet
  /\ UNCHANGED <<vaults, proposals, approved_proposals, events, fin, broadcasts, wallet,
                 frozen_utxos, notifications, spends, policies,
                 shared_keys, signers,
                 shared_signer_invites, shared_signers, my_shared_signers, ctx, core_signer>>

\* ------------------------------------------------------------------ specification
Init ==
  /\ vaults = {VaultId}
  /\ proposals = [p \in ProposalIds |-> NoRow]
  /\ approved_proposals = {}
  /\ events = save_event(<<>>, VaultEvent(CHOOSE k \in Peers : TRUE))
  /\ relay = {}
  /\ fin = Idle
  /\ ret = NoRet
  /\ broadcasts = [p \in ProposalIds |-> 0]
  /\ wallet = {}
  /\ frozen_utxos = {}
  /\ notifications = {}
  /\ spends = [c \in Calls |-> NoSpend]
  /\ policies = {VaultId}
  /\ shared_keys = save_shared_key({}, VaultId, SharedKey)
  /\ signers = <<>>
  /\ shared_signer_invites = <<>>
  /\ shared_signers = {}
  /\ my_shared_signers = {}
  /\ ctx = Context_new(Stage_default)
  /\ core_signer = NoCoreSigner

Next ==
  \/ \E p \in ProposalIds, sendOk \in BOOLEAN : Approve(p, sendOk)
  \/ \E aid \in DOMAIN events, sendOk \in BOOLEAN : RevokeApproval(aid, sendOk)
  \/ \E p \in ProposalIds : FinalizeCheck(p)
  \/ \E ok \in BOOLEAN : FinalizeBroadcast(ok)
  \/ \E sendOk \in BOOLEAN : FinalizePublish(sendOk)
  \/ FinalizeIndex
  \/ \E e \in relay : HandleEvent(e)
  \/ \E p \in ProposalIds : PeerSpend(p, "Spending", FirstSpendable({}))
  \/ \E k \in Peers, p \in ProposalIds : PeerApprove(k, p)
  \/ \E k \in Peers, t \in relay : PeerDelete(k, t)
  \/ \E p \in ProposalIds : PeerFinalize(p)

Spec == Init /\ [][Next]_vars

\* The client creates spending proposals itself, with spend calls that run at
\* the same time, and deletes proposals; co-signers create proposals too.
NextSpend ==
  \/ \E c \in Calls, u \in Utxos, skip \in BOOLEAN : SpendBuild(c, u, skip, min_relay_fee, TRUE)
  \/ \E c \in Calls, sendOk \in BOOLEAN : SpendPublish(c, sendOk)
  \/ \E c \in Calls : SpendIndex(c)
  \/ \E p \in ProposalIds, sendOk \in BOOLEAN : DeleteProposal(p, sendOk)
  \/ \E e \in relay : HandleEvent(e)
  \/ \E p \in ProposalIds, u \in Utxos : PeerSpend(p, "Spending", u)

SpecSpend == Init /\ [][NextSpend]_vars

\* Only this client creates proposals, and every spend call consults the
\* frozen set (skip_frozen_utxos = false).
NextRace ==
  \/ \E c \in Calls, u \in Utxos : SpendBuild(c, u, FALSE, min_relay_fee, TRUE)
  \/ \E c \in Calls, sendOk \in BOOLEAN : SpendPublish(c, sendOk)
  \/ \E c \in Calls : SpendIndex(c)
  \/ \E e \in relay : HandleEvent(e)

SpecRace == Init /\ [][NextRace]_vars

\* The client alone creates, approves and finalizes proposals, one call at a
\* time and with every network call succeeding, and ingests what the relays
\* send back; one co-signer adds its approval.
NextLocal ==
  \/ SpendBuild(1, FirstSpendable(frozen_exclusions(frozen_utxos, FALSE)), FALSE,
                min_relay_fee, TRUE)
  \/ SpendPublish(1, TRUE)
  \/ SpendIndex(1)
  \/ \E p \in ProposalIds : Approve(p, TRUE)
  \/ \E p \in ProposalIds : FinalizeCheck(p)
  \/ FinalizeBroadcast(TRUE)
  \/ FinalizePublish(TRUE)
  \/ FinalizeIndex
  \/ \E e \in relay : HandleEvent(e)
  \/ \E p \in ProposalIds : PeerApprove(CHOOSE k \in Peers : TRUE, p)

SpecLocal == Init /\ [][NextLocal]_vars

\* spends and size estimates of this client under every fee rate
NextFee ==
  \/ \E c \in Calls, u \in Utxos, skip \in BOOLEAN, fee_rate \in FeeRates, estimateOk \in BOOLEAN :
        SpendBuild(c, u, skip, fee_rate, estimateOk)
  \/ \E u \in Utxos, skip \in BOOLEAN : EstimateTxVsize(u, skip)
  \/ \E c \in Calls, sendOk \in BOOLEAN : SpendPublish(c, sendOk)
  \/ \E c \in Calls : SpendIndex(c)
  \/ \E e \in relay : HandleEvent(e)

SpecFee == Init /\ [][NextFee]_vars

\* this client deletes the vault it created, and works on proposals of it
\* before and after
InitVault ==
  /\ events = save_event(<<>>, VaultEvent(Me))
  /\ vaults = {VaultId}
  /\ proposals = [p \in ProposalIds |-> NoRow]
  /\ approved_proposals = {}
  /\ relay = {}
  /\ fin = Idle
  /\ ret = NoRet
  /\ broadcasts = [p \in ProposalIds |-> 0]
  /\ wallet = {}
  /\ frozen_utxos = {}
  /\ notifications = {}
  /\ spends = [c \in Calls |-> NoSpend]
  /\ policies = {VaultId}
  /\ shared_keys = save_shared_key({}, VaultId, SharedKey)
  /\ signers = <<>>
  /\ shared_signer_invites = <<>>
  /\ shared_signers = {}
  /\ my_shared_signers = {}
  /\ ctx = Context_new(Stage_default)
  /\ core_signer = NoCoreSigner

NextVault ==
  \/ DeleteVault(TRUE)
  \/ \E p \in ProposalIds : Approve(p, TRUE)
  \/ \E p \in ProposalIds : FinalizeCheck(p)
  \/ FinalizeBroadcast(TRUE)
  \/ FinalizePublish(TRUE)
  \/ FinalizeIndex
  \/ \E p \in ProposalIds : DeleteProposal(p, TRUE)
  \/ \E e \in relay : HandleEvent(e)
  \/ \E p \in ProposalIds : PeerSpend(p, "Spending", FirstSpendable({}))
  \/ \E p \in ProposalIds : PeerApprove(CHOOSE k \in Peers : TRUE, p)

SpecVault == InitVault /\ [][NextVault]_vars

\* a client before it knows the vault: it creates the vault from the
\* descriptor, with whatever key it generates, while the co-signers use the
\* vault under SharedKey
InitKeys ==
  /\ events = <<>>
  /\ vaults = {}
  /\ proposals = [p \in ProposalIds |-> NoRow]
  /\ approved_proposals = {}
  /\ relay = {}
  /\ fin = Idle
  /\ ret = NoRet
  /\ broadcasts = [p \in ProposalIds |-> 0]
  /\ wallet = {}
  /\ frozen_utxos = {}
  /\ notifications = {}
  /\ spends = [c \in Calls |-> NoSpend]
  /\ policies = {}
  /\ shared_keys = {}
  /\ signers = <<>>
  /\ shared_signer_invites = <<>>
  /\ shared_signers = {}
  /\ my_shared_signers = {}
  /\ ctx = Context_new(Stage_default)
  /\ core_signer = NoCoreSigner

NextKeys ==
  \/ \E shared_key \in GeneratedKeys, sendOk \in BOOLEAN : SaveVault(shared_key, sendOk)
  \/ \E e \in relay : HandleEvent(e)
  \/ \E p \in ProposalIds : PeerSpend(p, "Spending", FirstSpendable({}))
  \/ \E p \in ProposalIds : PeerApprove(CHOOSE k \in Peers : TRUE, p)

SpecKeys == InitKeys /\ [][NextKeys]_vars

\* this client saves its signers and edits their metadata
NextSigners ==
  \/ \E signer \in SignerValues, sendOk \in BOOLEAN : SaveSigner(signer, sendOk)
  \/ \E signer_id \in SignerCores, name \in SignerNames \cup {None},
        description \in SignerDescriptions \cup {None}, sendOk \in BOOLEAN :
        EditSignerMetadata(signer_id, name, description, sendOk)

SpecSigners == Init /\ [][NextSigners]_vars

\* ------------------------------------------------------------------ signer store
\* the signers of this client the store is given, by their events
StoredSigners == {OwnSigner, [OwnSigner EXCEPT !.name = "a"]}

\* the event of a share of this client's signer signer_id with public_key
MySharedSignerEvent(signer_id, public_key) ==
  [kind |-> "my_shared_signer", author |-> Me, signer_id |-> signer_id,
   public_key |-> public_key, n |-> 1]

\* the cores of the signers other users share with this client
ReceivedCores == {c \in SharedCores : c.network = "bitcoin" /\ c.descriptors = "d1"}

\* the tables Store::delete_signer and Store::delete_shared_signer work on
SignerTables ==
  [events |-> events, signers |-> signers, my_shared_signers |-> my_shared_signers,
   shared_signers |-> shared_signers]

\* the tables become those of tbls
SetSignerTables(tbls) ==
  /\ events' = tbls.events
  /\ signers' = tbls.signers
  /\ my_shared_signers' = tbls.my_shared_signers
  /\ shared_signers' = tbls.shared_signers

\* INSERT OR IGNORE INTO my_shared_signers (signer_id, shared_signer_id, public_key)
save_my_shared_signer(tbl, signer_id, shared_signer_id, public_key) ==
  IF \E r \in tbl : r.shared_signer_id = shared_signer_id THEN tbl
  ELSE tbl \cup {[signer_id |-> signer_id, shared_signer_id |-> shared_signer_id,
                  public_key |-> public_key]}

\* INSERT OR IGNORE INTO shared_signers (shared_signer_id, owner_public_key, shared_signer)
save_shared_signer(tbl, shared_signer_id, owner_public_key, shared_signer) ==
  IF \E r \in tbl : r.shared_signer_id = shared_signer_id THEN tbl
  ELSE tbl \cup {[shared_signer_id |-> shared_signer_id,
                  owner_public_key |-> owner_public_key,
                  shared_signer |-> shared_signer]}

\* variant: the shares of the deleted signer are left in their table
delete_signer_keep_shares(tbls, signer_id) ==
  [tbls EXCEPT !.events = set_event_as_deleted(@, signer_id),
               !.signers = [i \in DOMAIN @ \ {signer_id} |-> @[i]]]

\* Store::delete_signer: the event is marked deleted, then the signer and the
\* rows of my_shared_signers with its signer_id are deleted
delete_signer(tbls, signer_id) ==
  [tbls EXCEPT !.events = set_event_as_deleted(@, signer_id),
               !.signers = [i \in DOMAIN @ \ {signer_id} |-> @[i]],
               !.my_shared_signers = {r \in @ : r.signer_id # signer_id}]

\* Store::delete_shared_signer: the event is marked deleted, then the rows of
\* my_shared_signers and shared_signers with its shared_signer_id are deleted
delete_shared_signer(tbls, shared_signer_id) ==
  [tbls EXCEPT !.events = set_event_as_deleted(@, shared_signer_id),
               !.my_shared_signers = {r \in @ : r.shared_signer_id # shared_signer_id},
               !.shared_signers = {r \in @ : r.shared_signer_id # shared_signer_id}]

\* the sync task saves the event of one of this client's signers and the signer
IndexSigner(signer) ==
  LET e == SignerEvent(signer, 1) IN
  /\ ~event_was_deleted(events, EventId(e))
  /\ events' = save_event(events, e)
  /\ signers' = save_signer(signers, EventId(e), signer)
  /\ ret' = NoRet
  /\ UNCHANGED <<vaults, proposals, approved_proposals, relay, fin, broadcasts, wallet,
                 frozen_utxos, notifications, spends, policies, shared_keys,
                 shared_signer_invites, shared_signers, my_shared_signers, ctx, core_signer>>

\* the sync task saves the event of a share of this client's signer
IndexMySharedSigner(signer, public_key) ==
  LET signer_id == EventId(SignerEvent(signer, 1))
      e == MySharedSignerEvent(signer_id, public_key) IN
  /\ ~event_was_deleted(events, EventId(e))
  /\ events' = save_event(events, e)
  /\ my_shared_signers' = save_my_shared_signer(my_shared_signers, signer_id,
                                                EventId(e), public_key)
  /\ ret' = NoRet
  /\ UNCHANGED <<vaults, proposals, approved_proposals, relay, fin, broadcasts, wallet,
                 frozen_utxos, notifications, spends, policies, shared_keys, signers,
                 shared_signer_invites, shared_signers, ctx, core_signer>>

\* the sync task saves the event of a signer another user shares with this client
IndexSharedSigner(owner, core) ==
  LET shared_signer == SharedSigner_new(owner, Me, core)
      e == SharedSignerEvent(owner, shared_signer, 1) IN
  /\ ~event_was_deleted(events, EventId(e))
  /\ events' = save_event(events, e)
  /\ shared_signers' = save_shared_signer(shared_signers, EventId(e), owner, shared_signer)
  /\ ret' = NoRet
  /\ UNCHANGED <<vaults, proposals, approved_proposals, relay, fin, broadcasts, wallet,
                 frozen_utxos, notifications, spends, policies, shared_keys, signers,
                 shared_signer_invites, my_shared_signers, ctx, core_signer>>

\* a call of Store::delete_signer
DeleteSigner(signer_id) ==
  /\ SetSignerTables(delete_signer(SignerTables, signer_id))
  /\ Return("delete_signer", 0, "Ok")
  /\ UNCHANGED <<vaults, proposals, approved_proposals, relay, fin, broadcasts, wallet,
                 frozen_utxos, notifications, spends, policies, shared_keys,
                 shared_signer_invites, ctx, core_signer>>

\* a call of Store::delete_shared_signer
DeleteSharedSigner(shared_signer_id) ==
  /\ SetSignerTables(delete_shared_signer(SignerTables, shared_signer_id))
  /\ Return("delete_shared_signer", 0, "Ok")
  /\ UNCHANGED <<vaults, proposals, approved_proposals, relay, fin, broadcasts, wallet,
                 frozen_utxos, notifications, spends, policies, shared_keys,
                 shared_signer_invites, ctx, core_signer>>

\* the store of this client's signers, their shares and the signers shared
\* with it
NextSignerStore ==
  \/ \E signer \in StoredSigners : IndexSigner(signer)
  \/ \E signer \in StoredSigners, public_key \in {CHOOSE k \in Peers : TRUE} :
        IndexMySharedSigner(signer, public_key)
  \/ \E owner \in Peers, core \in ReceivedCores : IndexSharedSigner(owner, core)
  \/ \E signer \in StoredSigners : DeleteSigner(EventId(SignerEvent(signer, 1)))
  \/ \E id \in DOMAIN events : DeleteSharedSigner(id)

SpecSignerStore == Init /\ [][NextSignerStore]_vars

\* a call of CoreSigner::new; the function reads no state, a behaviour is one
\* call
NewCoreSigner(fingerprint, descriptors, network) ==
  /\ ~core_signer.called
  /\ core_signer' =
        [called |-> TRUE, fingerprint |-> fingerprint, descriptors |-> descriptors,
         network |-> network,
         result |-> CoreSigner_new(fingerprint, descriptors, network).result,
         signer |-> CoreSigner_new(fingerprint, descriptors, network).signer]
  /\ ret' = NoRet
  /\ UNCHANGED <<vaults, proposals, approved_proposals, events, relay, fin, broadcasts,
                 wallet, frozen_utxos, notifications, spends, policies, shared_keys, signers,
                 shared_signer_invites, shared_signers, my_shared_signers, ctx>>

\* CoreSigner::new on every fingerprint, map of descriptors and network
NextCoreSigner ==
  \E fingerprint \in Fingerprints, descriptors \in DescriptorMaps, network \in Networks :
     NewCoreSigner(fingerprint, descriptors, network)

SpecCoreSigner == Init /\ [][NextCoreSigner]_vars

\* the desktop application calls Context::set_stage; ret records whether the
\* stage was in the breadcrumb
SetStage(stage) ==
  /\ ctx' = set_stage(ctx, stage)
  /\ Return("set_stage", 0, IF contains(ctx.breadcrumb, stage) THEN "contained" ELSE "new")
  /\ UNCHANGED <<vaults, proposals, approved_proposals, events, relay, fin, broadcasts,
                 wallet, frozen_utxos, notifications, spends, policies, shared_keys, signers,
                 shared_signer_invites, shared_signers, my_shared_signers, core_signer>>

\* the desktop application calls Context::reset_breadcrumb
ResetBreadcrumb ==
  /\ ctx' = reset_breadcrumb(ctx)
  /\ Return("reset_breadcrumb", 0, "Ok")
  /\ UNCHANGED <<vaults, proposals, approved_proposals, events, relay, fin, broadcasts,
                 wallet, frozen_utxos, notifications, spends, policies, shared_keys, signers,
                 shared_signer_invites, shared_signers, my_shared_signers, core_signer>>

\* navigation in the desktop application
NextContext ==
  \/ \E stage \in Stages : SetStage(stage)
  \/ ResetBreadcrumb

SpecContext == Init /\ [][NextContext]_vars

InitShare ==
  /\ events = save_event(<<>>, VaultEvent(CHOOSE k \in Peers : TRUE))
  /\ vaults = {VaultId}
  /\ proposals = [p \in ProposalIds |-> NoRow]
  /\ approved_proposals = {}
  /\ relay = {}
  /\ fin = Idle
  /\ ret = NoRet
  /\ broadcasts = [p \in ProposalIds |-> 0]
  /\ wallet = {}
  /\ frozen_utxos = {}
  /\ notifications = {}
  /\ spends = [c \in Calls |-> NoSpend]
  /\ policies = {VaultId}
  /\ shared_keys = save_shared_key({}, VaultId, SharedKey)
  /\ signers = save_signer(<<>>, SharedSigner_signer_id(SharedSigner_new(Me, Me, OwnSigner.core)), OwnSigner)
  /\ shared_signer_invites = <<>>
  /\ shared_signers = {}
  /\ my_shared_signers = {}
  /\ ctx = Context_new(Stage_default)
  /\ core_signer = NoCoreSigner

NextShare ==
  \/ \E receiver \in {CHOOSE k \in Peers : TRUE}, sendOk \in BOOLEAN :
        ShareSigner(SharedSigner_signer_id(SharedSigner_new(Me, Me, OwnSigner.core)), receiver, sendOk)
  \/ \E owner \in {CHOOSE k \in Peers : TRUE} :
        \E receiver \in Signers \ {owner}, core \in SharedCores :
           PeerShareSigner(owner, receiver, core)
  \/ InviteToVault(CHOOSE k \in Peers : TRUE, Me)
  \/ \E e \in relay : HandleWrapper(e)
  \/ \E id \in InviteIdentifiers : DeleteSharedSignerInvite(id)

SpecShare == InitShare /\ [][NextShare]_vars

\* co-signers share signers with this client, which accepts the invites
NextAccept ==
  \/ \E owner \in {CHOOSE k \in Peers : TRUE} :
        \E receiver \in Signers \ {owner}, core \in SharedCores :
           PeerShareSigner(owner, receiver, core)
  \/ \E e \in relay : HandleWrapper(e)
  \/ \E id \in InviteIdentifiers, signerOk \in BOOLEAN, sendOk \in BOOLEAN :
        AcceptSharedSignerInvite(id, signerOk, sendOk)

SpecAccept == InitShare /\ [][NextAccept]_vars

\* The vault was created by this client or by a co-signer.
InitDelete ==
  /\ \E author \in {Me, CHOOSE k \in Peers : TRUE} :
        events = save_event(<<>>, VaultEvent(author))
  /\ vaults = {VaultId}
  /\ proposals = [p \in ProposalIds |-> NoRow]
  /\ approved_proposals = {}
  /\ relay = {}
  /\ fin = Idle
  /\ ret = NoRet
  /\ broadcasts = [p \in ProposalIds |-> 0]
  /\ wallet = {}
  /\ frozen_utxos = {}
  /\ notifications = {}
  /\ spends = [c \in Calls |-> NoSpend]
  /\ policies = {VaultId}
  /\ shared_keys = save_shared_key({}, VaultId, SharedKey)
  /\ signers = <<>>
  /\ shared_signer_invites = <<>>
  /\ shared_signers = {}
  /\ my_shared_signers = {}
  /\ ctx = Context_new(Stage_default)
  /\ core_signer = NoCoreSigner

\* The client and the co-signers delete what they and others have published.
NextDelete ==
  \/ \E sendOk \in BOOLEAN : DeleteVault(sendOk)
  \/ \E p \in ProposalIds, sendOk \in BOOLEAN : DeleteProposal(p, sendOk)
  \/ \E p \in ProposalIds, sendOk \in BOOLEAN : Approve(p, sendOk)
  \/ \E e \in relay : HandleEvent(e)
  \/ \E p \in ProposalIds : PeerSpend(p, "Spending", FirstSpendable({}))
  \/ \E k \in Peers, p \in ProposalIds : PeerApprove(k, p)
  \/ \E k \in Peers, t \in relay : PeerDelete(k, t)
  \/ \E t \in relay : PeerDeleteProposal(t)

SpecDelete == InitDelete /\ [][NextDelete]_vars

\* ------------------------------------------------------------------ properties
\* the distinct approver keys the index holds for proposal p
IndexedKeys(p) == {a.public_key : a \in {b \in approved_proposals : b.proposal_id = p}}

\* the call of finalize that returns in this step, if any
Finalized(p, result) == ret = [op |-> "finalize", pid |-> p, result |-> result]

\* C1: a proposal is Completed in the index only when a Completed event of a
\* policy-satisfying finalize exists, a Completed event is first published only
\* by a finalize whose policy check passed, and for the 2-of-3 vault finalize of
\* a Pending proposal returns NotEnoughApprovals with fewer than two distinct
\* approver keys indexed and goes on (to broadcast and publish) with two.
C1_CompletedOnlyAfterPolicySatisfied ==
  /\ [](\A p \in ProposalIds :
          proposals[p].status = "Completed" => RelayProposal(p, "Completed"))
  /\ [](fin.pc # "idle" => fin.checked)
  /\ [][\A e \in relay' \ relay :
          (e.kind = "proposal" /\ e.status = "Completed" /\ fin' # fin) =>
             fin.checked /\ fin.pid = e.pid]_vars
  /\ [][\A p \in ProposalIds :
          (FinalizeCheck(p) /\ proposals[p].status = "Pending") =>
             IF Cardinality(IndexedKeys(p)) >= 2
             THEN fin'.pc # "idle" /\ fin'.pid = p /\ fin'.status = "Completed"
             ELSE /\ ret' = [op |-> "finalize", pid |-> p, result |-> "NotEnoughApprovals"]
                  /\ fin'.pc = "idle"]_vars

\* C1 witness: with the approvals of two different signers indexed the
\* proposal has passed the check of finalize and goes to the broadcast.
C1_Witness ==
  /\ fin.pc = "broadcast" /\ fin.checked
  /\ proposals[fin.pid].status = "Pending"
  /\ Cardinality(IndexedKeys(fin.pid)) = 2

\* C2: over any sequence of finalize calls the transaction of a proposal is
\* handed to the broadcast backend at most once.
C2_BroadcastAtMostOnce == \A p \in ProposalIds : broadcasts[p] <= 1

\* C3: when the backend rejects the broadcast, finalize returns an error, the
\* call has published no Completed event and publishes none, and the proposal
\* is still Pending in the index.
C3_BroadcastFailureLeavesPending ==
  [][(fin.pc = "broadcast" /\ fin'.pc = "idle") =>
        /\ ret' = [op |-> "finalize", pid |-> fin.pid, result |-> "BroadcastError"]
        /\ ~fin.published
        /\ relay' = relay /\ events' = events
        /\ broadcasts' = broadcasts
        /\ proposals' = proposals
        /\ proposals'[fin.pid].status = "Pending"]_vars

\* C3 witness: a finalize has just returned the broadcast error
C3_Witness ==
  \E p \in ProposalIds :
    /\ Finalized(p, "BroadcastError")
    /\ proposals[p].status = "Pending"
    /\ broadcasts[p] = 0
    /\ ~RelayProposal(p, "Completed")

\* C4: a finalize of a Pending proposal whose approvals do not satisfy the
\* policy returns NotEnoughApprovals and changes nothing: index, approvals,
\* events, relays, backend and wallet stay as they were.
C4_NotEnoughApprovalsChangesNothing ==
  [][\A p \in ProposalIds :
        (FinalizeCheck(p) /\ proposals[p].status = "Pending"
           /\ Cardinality(IndexedKeys(p)) < 2) =>
          /\ ret' = [op |-> "finalize", pid |-> p, result |-> "NotEnoughApprovals"]
          /\ UNCHANGED <<vaults, proposals, approved_proposals, events, relay, fin,
                         broadcasts, wallet, frozen_utxos, notifications>>]_vars

\* C4 witness: finalize has just been refused with one approver key indexed
C4_Witness ==
  \E p \in ProposalIds :
    /\ Finalized(p, "NotEnoughApprovals")
    /\ proposals[p].status = "Pending"
    /\ Cardinality(IndexedKeys(p)) = 1
    /\ broadcasts[p] = 0

\* C5: finalize broadcasts only after the policy check and before it publishes,
\* and publishes and indexes a spending proposal only after its broadcast.
C5_CheckThenBroadcastThenPublish ==
  /\ fin.pc = "broadcast" => fin.checked /\ ~fin.published
  /\ (fin.pc \in {"publish", "index"} /\ fin.ptype = "Spending") =>
        fin.checked /\ fin.sent /\ broadcasts[fin.pid] >= 1
  /\ fin.published => fin.checked /\ (fin.ptype = "Spending" => fin.sent)
  /\ fin.pc = "index" => fin.published

\* C5 witness: a finalize that has checked, broadcast and published
C5_Witness ==
  /\ fin.pc = "index" /\ fin.ptype = "Spending"
  /\ fin.checked /\ fin.sent /\ fin.published
  /\ broadcasts[fin.pid] = 1

\* C6: finalize of a proposal the index holds as Completed returns success and
\* changes nothing.
C6_FinalizeCompletedIsNoOp ==
  [][\A p \in ProposalIds :
        (FinalizeCheck(p) /\ proposals[p].status = "Completed") =>
          /\ ret' = [op |-> "finalize", pid |-> p, result |-> "Ok"]
          /\ UNCHANGED <<proposals, approved_proposals, events, relay, broadcasts>>]_vars

C8_ApproveCompletedFails ==
  [][\A p \in ProposalIds :
        ((\E sendOk \in BOOLEAN : Approve(p, sendOk))
           /\ proposals[p].status = "Completed") =>
          /\ ret' = [op |-> "approve", pid |-> p, result |-> "ProposalAlreadyFinalized"]
          /\ relay' = relay /\ events' = events
          /\ approved_proposals' = approved_proposals]_vars

\* C8 witness: approve has just been refused for a Completed proposal
C8_Witness ==
  \E p \in ProposalIds :
    /\ ret = [op |-> "approve", pid |-> p, result |-> "ProposalAlreadyFinalized"]
    /\ proposals[p].status = "Completed"

\* C9: an approval whose deletion the index has recorded is in no approval set:
\* no indexed approval row is one of a deleted event, and finalize passes its
\* check only with two approver keys whose approvals were not deleted.
C9_RevokedApprovalNotCounted ==
  /\ [](\A a \in approved_proposals : ~event_was_deleted(events, a.approval_id))
  /\ [](\A p \in ProposalIds :
          get_approved_proposals_by_proposal_id(approved_proposals, p) =
            {a \in approved_proposals :
               a.proposal_id = p /\ ~event_was_deleted(events, a.approval_id)})
  /\ [][\A p \in ProposalIds :
          (FinalizeCheck(p) /\ fin'.pc # "idle") =>
             Cardinality({a.public_key : a \in {b \in approved_proposals :
                 b.proposal_id = p /\ ~event_was_deleted(events, b.approval_id)}}) >= 2]_vars

\* C9 witness: A approved and revoked, B and C approved, and finalize passed
\* its check on exactly the approvals of B and C
C9_Witness ==
  /\ fin.pc # "idle" /\ fin.checked
  /\ IndexedKeys(fin.pid) = Peers
  /\ \E id \in DOMAIN events :
       /\ events[id].deleted
       /\ events[id].event.kind = "approval"
       /\ events[id].event.author = Me
       /\ events[id].event.pid = fin.pid

\* C10: the index holds at most one approval per approver key and proposal.
C10_OneApprovalPerKey ==
  \A a, b \in approved_proposals :
    (a.proposal_id = b.proposal_id /\ a.public_key = b.public_key) => a = b

\* ------------------------------------------------------------------ UTXO freezing
\* the proposals of the index that are Pending spending proposals
PendingSpending(p) ==
  proposal_exists(proposals, p) /\ proposals[p].status = "Pending"
                                /\ proposals[p].ptype = "Spending"

\* C11: whenever two spending proposals of the vault are Pending at the same
\* time, no UTXO is an input of both.
C11_PendingProposalsShareNoInput ==
  \A p, q \in ProposalIds :
     (p # q /\ PendingSpending(p) /\ PendingSpending(q))
        => proposals[p].input # proposals[q].input

\* C12: the check of the frozen set and the reservation are atomic: when a
\* spend call that consulted the frozen set returns its Pending proposal, no
\* other Pending proposal of the index has the same input.
C12_SpendReservesItsInput ==
  (ret.op = "spend" /\ ret.result = "Ok")
     => \A q \in ProposalIds \ {ret.pid} :
           PendingSpending(q) => proposals[q].input # proposals[ret.pid].input

\* the UTXOs frozen on behalf of proposal p
FrozenFor(frozen, p) == {r.utxo : r \in {x \in frozen : x.proposal_id = p}}

\* proposal p leaves the index in this step
Deleted(p) == proposal_exists(proposals, p) /\ ~proposal_exists(proposals', p)

\* C13: when a Pending proposal is deleted, no UTXO stays frozen on its
\* behalf and a spend that consults the frozen set can build on every UTXO
\* that only this proposal had frozen; the UTXOs frozen by the other
\* proposals stay frozen.
C13_DeletionReleasesFrozenUtxos ==
  [][\A p \in ProposalIds :
       (Deleted(p) /\ proposals[p].status = "Pending")
          => /\ FrozenFor(frozen_utxos', p) = {}
             /\ \A q \in ProposalIds \ {p} :
                   FrozenFor(frozen_utxos', q) = FrozenFor(frozen_utxos, q)
             /\ \A u \in FrozenFor(frozen_utxos, p) :
                   (\A q \in ProposalIds \ {p} : u \notin FrozenFor(frozen_utxos, q))
                      => manager_spend(u, frozen_exclusions(frozen_utxos', FALSE))]_vars

\* a proposal with a frozen UTXO was deleted by delete_proposal_by_id while
\* another Pending proposal keeps its own UTXO frozen
C13_Witness ==
  /\ ret.op = "delete_proposal_by_id" /\ ret.result = "Ok"
  /\ ~proposal_exists(proposals, ret.pid)
  /\ \E e \in relay : e.kind = "proposal" /\ e.pid = ret.pid /\ e.status = "Pending"
                       /\ e.input \notin get_frozen_utxos(frozen_utxos)
  /\ \E q \in ProposalIds : PendingSpending(q) /\ FrozenFor(frozen_utxos, q) # {}

\* ------------------------------------------------------------------ deletion
\* the relays hold a deletion of approval a signed by the approval's author
DeletedByAuthor(rel, a) ==
  \E d \in rel : d.kind = "deletion" /\ d.target = a.approval_id /\ d.author = a.public_key

\* C14: a deletion event that targets an approval and is signed by another
\* key than the approval's author is rejected on ingestion: as long as no
\* deletion by its author exists, an indexed approval stays in the index, is
\* returned by the approvals-by-proposal query and its key is among those
\* finalize counts.
C14_ForeignDeletionOfApprovalRejected ==
  [][\A a \in approved_proposals :
       ~DeletedByAuthor(relay', a)
          => LET rows == get_approved_proposals_by_proposal_id(approved_proposals',
                                                                a.proposal_id) IN
             /\ a \in approved_proposals'
             /\ a \in rows
             /\ a.public_key \in ApprovalKeys(rows)]_vars

\* the index has ingested a deletion of an approval signed by another key,
\* the approval is still indexed, and a finalize call has passed its policy
\* check with the two approvals that include it
C14_Witness ==
  \E a \in approved_proposals :
     /\ \E d \in DOMAIN events : /\ events[d].event.kind = "deletion"
                                  /\ events[d].event.target = a.approval_id
                                  /\ events[d].event.author # a.public_key
     /\ ~DeletedByAuthor(relay, a)
     /\ fin.pc # "idle" /\ fin.pid = a.proposal_id
     /\ Cardinality(IndexedKeys(a.proposal_id)) = Descriptor.threshold

\* the author of the vault's creation event
VaultAuthor == events[CHOOSE id \in vault_events(events) : TRUE].event.author

\* C15: delete_vault_by_id called by a user who is not the author of the
\* vault's creation event fails with TryingToDeleteNotOwnedEvent and has no
\* effect: no deletion event is published, the vault stays in the index and
\* its policy stays loaded.
C15_DeleteVaultByNonAuthorFails ==
  [][(ret'.op = "delete_vault_by_id" /\ VaultAuthor # Me)
        => /\ ret'.result = "TryingToDeleteNotOwnedEvent"
           /\ UNCHANGED <<vaults, policies, relay, events, proposals, approved_proposals,
                          frozen_utxos, notifications>>]_vars

\* delete_vault_by_id has failed on a vault a co-signer created, and the
\* vault is in the index with its policy loaded
C15_Witness ==
  /\ ret.op = "delete_vault_by_id" /\ ret.result = "TryingToDeleteNotOwnedEvent"
  /\ VaultAuthor # Me
  /\ VaultId \in vaults /\ VaultId \in policies
  /\ ~\E d \in relay : d.kind = "deletion" /\ d.target.kind = "vault"

\* C16: any holder of the shared key can delete any proposal of the vault,
\* whoever created it: delete_proposal_by_id never fails with
\* TryingToDeleteNotOwnedEvent, and when it succeeds it has published a
\* deletion event signed with the shared key that targets the proposal's
\* event, and the proposal is no longer in the local index.
C16_SharedKeyHolderDeletesProposal ==
  [][ret'.op = "delete_proposal_by_id"
        => /\ ret'.result \in {"Ok", "NotFound", "SendError"}
           /\ (proposal_exists(proposals, ret'.pid) /\ VaultId \in vaults)
                 => ret'.result \in {"Ok", "SendError"}
           /\ ret'.result = "Ok"
                 => /\ \E d \in relay' \ relay :
                         /\ d.kind = "deletion" /\ d.author = SharedKey
                         /\ d.target \in proposal_events(events, ret'.pid)
                    /\ proposal_exists(proposals, ret'.pid)
                    /\ ~proposal_exists(proposals', ret'.pid)]_vars

\* delete_proposal_by_id has deleted a proposal that a co-signer created
C16_Witness ==
  /\ ret.op = "delete_proposal_by_id" /\ ret.result = "Ok"
  /\ ~proposal_exists(proposals, ret.pid)
  /\ \A c \in Calls : spends[c] = NoSpend
  /\ \E d \in relay : /\ d.kind = "deletion" /\ d.author = SharedKey
                       /\ d.target.kind = "proposal" /\ d.target.pid = ret.pid
                       /\ event_was_deleted(events, d.target)

\* C17: deleting a proposal cascades: in the step that deletes it, the
\* proposal is no longer found by its id, the approvals-by-proposal query
\* returns no approval for it and the notification of its event is gone,
\* while the rows and the approvals of the other proposals are unchanged.
C17_DeleteProposalCascades ==
  [][\A p \in ProposalIds :
       Deleted(p)
          => /\ ~proposal_exists(proposals', p)
             /\ get_approved_proposals_by_proposal_id(approved_proposals', p) = {}
             /\ proposals[p].eid \notin notifications'
             /\ \A q \in ProposalIds \ {p} :
                   /\ proposals'[q] = proposals[q]
                   /\ get_approved_proposals_by_proposal_id(approved_proposals', q)
                        = get_approved_proposals_by_proposal_id(approved_proposals, q)]_vars

\* a proposal that had an approval and a notification was deleted by
\* delete_proposal_by_id, and another proposal keeps its approval
C17_Witness ==
  /\ ret.op = "delete_proposal_by_id" /\ ret.result = "Ok"
  /\ ~proposal_exists(proposals, ret.pid)
  /\ \E a \in DOMAIN events : /\ events[a].event.kind = "approval"
                               /\ events[a].event.pid = ret.pid
                               /\ ~event_was_deleted(events, a)
  /\ get_approved_proposals_by_proposal_id(approved_proposals, ret.pid) = {}
  /\ \E q \in ProposalIds \ {ret.pid} :
        /\ proposal_exists(proposals, q)
        /\ get_approved_proposals_by_proposal_id(approved_proposals, q) # {}
        /\ proposals[q].eid \in notifications

\* the events table holds event id with its deleted flag set
Tombstoned(evts, id) == id \in DOMAIN evts /\ evts[id].deleted

\* the entity saved from event id is in the index
Materialized(props, apps, id) ==
  \/ \E p \in ProposalIds : props[p] # NoRow /\ props[p].eid = id
  \/ \E a \in apps : a.approval_id = id

C19_EarlyDeletionTakesEffect ==
  \A d \in DOMAIN events :
     (/\ events[d].event.kind = "deletion"
      /\ events[d].event.target.kind \in {"proposal", "approval"}
      /\ events[d].event.target.author = events[d].event.author)
        => ~Materialized(proposals, approved_proposals, events[d].event.target)

\* ------------------------------------------------------------------ convergence
\* the events on the relays that concern proposal p: the events that create
\* or update it, and the deletions of those
EntityEvents(p) ==
  {e \in relay : \/ e.kind = "proposal" /\ e.pid = p
                 \/ e.kind = "deletion" /\ e.target.kind = "proposal" /\ e.target.pid = p}

\* the orders in which a set of events can arrive, each event once
Orders(S) ==
  {s \in [1..Cardinality(S) -> S] : \A i, j \in 1..Cardinality(S) : i # j => s[i] # s[j]}

\* the index of a client that knows the vault and has ingested no event
FreshIndex ==
  [proposals |-> [p \in ProposalIds |-> NoRow], approved_proposals |-> {},
   events |-> [id \in vault_events(events) |-> events[id]],
   frozen_utxos |-> {}, notifications |-> {}]

\* C20: for the events that concern one proposal, every order in which a
\* client ingests them ends in the same index state.
C20_IngestionOrderIrrelevant ==
  \A p \in ProposalIds :
     \A s1, s2 \in Orders(EntityEvents(p)) :
        Ingest(FreshIndex, s1, 1) = Ingest(FreshIndex, s2, 1)

SameEntity(e1, e2) ==
  /\ e1.kind = e2.kind /\ e1.kind \in {"proposal", "approval"}
  /\ e1.pid = e2.pid /\ e1.author = e2.author

\* C22: index rows are keyed by the identifier of the entity, never by the
\* id of the relay event: two different relay events that describe the same
\* entity never have a row each.
C22_OneRowPerEntity ==
  \A e1, e2 \in DOMAIN events :
     (e1 # e2 /\ SameEntity(e1, e2))
        => ~(/\ Materialized(proposals, approved_proposals, e1)
             /\ Materialized(proposals, approved_proposals, e2))

\* ------------------------------------------------------------------ read after write
\* C23: as soon as spend has returned successfully, get_proposal_by_id and
\* the proposal list of the same client return the new proposal as Pending.
C23_SpendIsVisibleAtOnce ==
  (ret.op = "spend" /\ ret.result = "Ok")
     => /\ get_proposal_by_id(proposals, approved_proposals, ret.pid).result = "Ok"
        /\ get_proposal_by_id(proposals, approved_proposals, ret.pid).proposal.status = "Pending"
        /\ \E g \in get_proposals(proposals, approved_proposals) :
              g.id = ret.pid /\ g.proposal.status = "Pending"

\* spend has returned and the echo of its event has not been ingested: the
\* row has no notification, which ingestion adds to a proposal it saves
C23_Witness ==
  /\ ret.op = "spend" /\ ret.result = "Ok"
  /\ proposal_exists(proposals, ret.pid)
  /\ proposals[ret.pid].eid \in relay
  /\ proposals[ret.pid].eid \notin notifications

\* ------------------------------------------------------------------ failures
\* the call that returns in this step returns the error of a network call
NetworkError(r) ==
  /\ r.op \in {"spend", "approve", "finalize"}
  /\ r.result \in {"SendError", "BroadcastError"}

\* the finalize call in flight has put its transaction into the wallet's
\* cache, which did not hold it before: it made the first broadcast
InsertedTx == fin.sent /\ fin.pid \in wallet /\ broadcasts[fin.pid] = 1

\* C24: when a network call fails inside spend, approve or finalize, the
\* operation returns the error and the local state (vaults, proposals,
\* approvals, frozen UTXOs, the wallet's transaction cache) is as it was
\* before the call.
C24_NetworkFailureChangesNothing ==
  [][NetworkError(ret')
        => /\ UNCHANGED <<vaults, proposals, approved_proposals, frozen_utxos, wallet,
                          notifications, policies>>
           /\ ret'.op = "finalize" => ~InsertedTx]_vars
\* every UTXO of the wallet is frozen: a build that honours the frozen set
\* finds nothing to spend
AllFrozen == Utxos \ frozen_exclusions(frozen_utxos, FALSE) = {}

\* C25: a spend or a size estimate with an invalid fee rate (zero rate,
\* malformed priority) returns InvalidFeeRate whatever the backend would have
\* answered (fee estimation down, no spendable UTXO), and the step that
\* returns InvalidFeeRate builds nothing, publishes nothing and changes no
\* index
C25_InvalidFeeRateRejectedFirst ==
  [][/\ \A fee_rate \in FeeRates, skip \in BOOLEAN, estimateOk \in BOOLEAN :
          ~is_valid(fee_rate)
             => internal_spend(frozen_utxos, skip, fee_rate, estimateOk) = "InvalidFeeRate"
     /\ ret'.result = "InvalidFeeRate"
          => UNCHANGED <<vaults, proposals, approved_proposals, events, relay, fin,
                         broadcasts, wallet, frozen_utxos, notifications, spends,
                         policies, shared_keys,
                          signers>>]_vars

\* an invalid fee rate was rejected while every UTXO was frozen
C25_Witness ==
  /\ ret.op = "spend"
  /\ ret.result = "InvalidFeeRate"
  /\ AllFrozen

\* this step is internal_spend, alone (estimate_tx_vsize), as the first part
\* of a spend, or as the whole of a spend that fails in it
BuildStep ==
  \/ \E c \in Calls : spends[c].pc = "idle" /\ spends'[c].pc = "publish"
  \/ ret'.op = "estimate_tx_vsize"
  \/ /\ ret'.op = "spend"
     /\ ret'.result \in {"InvalidFeeRate", "BlockchainError", "InsufficientFunds"}

\* C26: a step that builds a spending transaction publishes no event, adds
\* no row to the index and leaves the frozen-UTXO set as it was; a UTXO that
\* becomes frozen in a step is frozen for a proposal that is then published
\* and in the index
C26_BuildingIsReadOnly ==
  [][/\ BuildStep
          => UNCHANGED <<events, relay, proposals, approved_proposals, frozen_utxos,
                         notifications>>
     /\ \A r \in frozen_utxos' \ frozen_utxos :
          /\ proposal_exists(proposals', r.proposal_id)
          /\ proposals'[r.proposal_id].eid \in relay']_vars

\* a size estimate returned while a spend holds a built, unpublished
\* transaction, and the input of that transaction is not frozen
C26_Witness ==
  /\ ret.op = "estimate_tx_vsize"
  /\ ret.result = "Ok"
  /\ \E c \in Calls :
       /\ spends[c].pc = "publish"
       /\ spends[c].input \notin get_frozen_utxos(frozen_utxos)

\* a call of approve, finalize or delete_proposal_by_id returns in this step,
\* and it started in this step or, for finalize, returns from its first part
CallOnProposal ==
  /\ ret'.op \in {"approve", "finalize", "delete_proposal_by_id"}
  /\ ret'.op = "finalize" => fin.pc = "idle"

\* C27: approve, finalize and delete_proposal_by_id called while the vault is
\* absent from the index return NotFound, and the step changes nothing: no
\* approval, no event published, no broadcast, no index change
C27_AbsentVaultIsNotFound ==
  [][(VaultId \notin vaults /\ CallOnProposal)
        => /\ ret'.result = "NotFound"
           /\ UNCHANGED <<vaults, proposals, approved_proposals, events, relay, fin,
                          broadcasts, wallet, frozen_utxos, notifications, spends,
                          policies, shared_keys,
                          signers>>]_vars

\* a call returned NotFound for a proposal that is in the index, Pending and
\* approved by this client, while the vault is not
C27_Witness ==
  /\ ret.op \in {"approve", "finalize", "delete_proposal_by_id"}
  /\ ret.result = "NotFound"
  /\ VaultId \notin vaults
  /\ PendingSpending(ret.pid)
  /\ \E a \in approved_proposals : a.proposal_id = ret.pid /\ a.public_key = Me

\* C28: the shared key stored for a vault never changes: every row of table
\* shared_keys stays, a vault has at most one row, and once a key is stored
\* every later read returns it, whatever key a later save brings
C28_SharedKeyNeverChanges ==
  [][/\ shared_keys \subseteq shared_keys'
     /\ \A r1, r2 \in shared_keys' : r1.policy_id = r2.policy_id => r1 = r2
     /\ shared_key_exists_for_policy(shared_keys, VaultId)
          => get_shared_key(shared_keys', VaultId) = get_shared_key(shared_keys, VaultId)]_vars

\* save_vault returned Ok after publishing the vault under a key other than
\* the stored one
C28_Witness ==
  /\ ret.op = "save_vault"
  /\ ret.result = "Ok"
  /\ \E e \in relay :
       /\ e.kind = "vault"
       /\ e.author = Me
       /\ e.shared_key # get_shared_key(shared_keys, VaultId)

\* the index holds the vault's shared key
HoldsSharedKey ==
  \E r \in shared_keys : r.policy_id = VaultId /\ r.shared_key = SharedKey

\* C29: while the client does not hold the vault's shared key, it can decrypt
\* no event encrypted under that key, handling such an event fails with
\* Decrypt, and no step of the sync task or of a co-signer changes its index
C29_NoKeyNoIndex ==
  [][~HoldsSharedKey
        => /\ \A e \in relay :
                encryption_key(e) = SharedKey => ~can_decrypt(shared_keys, e)
           /\ ret'.op = "handle_event" => ret'.result = "Decrypt"
           /\ ret'.op # "save_vault"
                => UNCHANGED <<vaults, proposals, approved_proposals, events,
                               frozen_utxos, notifications>>]_vars

\* the sync task failed to decrypt a co-signer's proposal, the client holds
\* another key for the vault, and the proposal is not in its index
C29_Witness ==
  /\ ret.op = "handle_event"
  /\ ret.result = "Decrypt"
  /\ ~HoldsSharedKey
  /\ shared_key_exists_for_policy(shared_keys, VaultId)
  /\ RelayProposal(ret.pid, "Pending")
  /\ ~proposal_exists(proposals, ret.pid)

\* the signer events published in this step
PublishedSigners == {e \in relay' \ relay : e.kind = "signer"}

IdentifierComponents(shared_signer) ==
  <<shared_signer.owner, shared_signer.receiver, shared_signer.core.fingerprint,
    shared_signer.core.network>>

\* the shared signers of the invites on the relays
InvitedSharedSigners ==
  {e.content.shared_signer :
     e \in {w \in relay : w.kind = "wrapper" /\ w.content.type = "SharedSignerInvite"}}

\* C31: a shared signer on the relays and any other shared signer have the
\* same identifier exactly when they agree in owner, receiver, fingerprint
\* and network, and every pending invite is stored under the identifier of
\* its shared signer, so that a signer shared twice with the same receiver
\* has one entry
C31_SharedSignerIdentifier ==
  /\ LET invited == {<<s1, nostr_public_identifier(s1)>> : s1 \in InvitedSharedSigners} IN
     \A s2 \in SharedSignerValues :
        LET id2 == nostr_public_identifier(s2) IN
        \A s1 \in invited :
           s1[2] = id2 <=> IdentifierComponents(s1[1]) = IdentifierComponents(s2)
  /\ \A id \in DOMAIN shared_signer_invites :
        nostr_public_identifier(shared_signer_invites[id].shared_signer) = id

\* two invites to the same shared signer were handled and the pending invites
\* hold it, next to an invite that differs in one component
C31_Witness ==
  /\ \E e1, e2 \in DOMAIN events :
       /\ e1 # e2
       /\ e1.kind = "wrapper" /\ e2.kind = "wrapper"
       /\ e1.content.type = "SharedSignerInvite" /\ e2.content.type = "SharedSignerInvite"
       /\ nostr_public_identifier(e1.content.shared_signer)
             = nostr_public_identifier(e2.content.shared_signer)
       /\ nostr_public_identifier(e1.content.shared_signer) \in DOMAIN shared_signer_invites
  /\ Cardinality(DOMAIN shared_signer_invites) >= 2

\* C32: delete_shared_signer_invite removes the invite under the identifier
\* it is given from the pending invites and nothing else, returns true
\* exactly when there was one, publishes no event, and leaves signers, shared
\* signers and the other invites as they were
C32_DismissingInviteIsLocal ==
  [][ret'.op = "delete_shared_signer_invite"
        => /\ ret'.result = (IF ret'.pid \in DOMAIN shared_signer_invites
                             THEN "true" ELSE "false")
           /\ DOMAIN shared_signer_invites' = DOMAIN shared_signer_invites \ {ret'.pid}
           /\ \A i \in DOMAIN shared_signer_invites' :
                 shared_signer_invites'[i] = shared_signer_invites[i]
           /\ UNCHANGED <<relay, events, signers, shared_signers, my_shared_signers,
                          vaults, proposals, approved_proposals, shared_keys>>]_vars

\* an invite was dismissed, another one is still pending, and the dismissed
\* invite's event is on the relays with no deletion of it
C32_Witness ==
  /\ ret.op = "delete_shared_signer_invite"
  /\ ret.result = "true"
  /\ ret.pid \notin DOMAIN shared_signer_invites
  /\ DOMAIN shared_signer_invites # {}
  /\ \E e \in relay :
       /\ e.kind = "wrapper" /\ e.content.type = "SharedSignerInvite"
       /\ e \in DOMAIN events
       /\ nostr_public_identifier(e.content.shared_signer) = ret.pid
  /\ ~\E d \in relay : d.kind = "deletion"

\* the invite events on the relays
Invites == {e \in relay : e.kind = "wrapper"}

\* the receiver an invite is meant for
InviteReceiver(e) ==
  IF e.content.type = "SharedSignerInvite" THEN e.content.shared_signer.receiver
  ELSE e.encrypted_to

\* C33: every invite event on the relays is signed by a key that is no
\* user's identity key and signs no other invite, carries one public-key
\* tag, that of the receiver it is encrypted to, and carries an expiration
\* tag
C33_InvitesUseEphemeralKeys ==
  \A e \in Invites :
     /\ e.author \notin Signers \cup {SharedKey}
     /\ \A e2 \in Invites : e2.author = e.author => e2 = e
     /\ {t.value : t \in {x \in e.tags : x.tag = "p"}} = {e.encrypted_to}
     /\ e.encrypted_to = InviteReceiver(e)
     /\ \E t \in e.tags : t.tag = "expiration"

\* one user has sent the same receiver a shared-signer invite and a vault
\* invite, and this client has sent a shared-signer invite
C33_Witness ==
  /\ \E e1, e2 \in Invites :
       /\ e1.content.type = "SharedSignerInvite"
       /\ e2.content.type = "VaultInvite"
       /\ e1.content.shared_signer.owner = e2.content.invite.sender
       /\ e1.encrypted_to = e2.encrypted_to
  /\ \E e \in Invites :
       e.content.type = "SharedSignerInvite" /\ e.content.shared_signer.owner = Me

C35_ProposalInputsAreFrozen ==
  /\ [](\A p \in ProposalIds :
          proposal_exists(proposals, p) =>
            /\ proposals[p].input \in FrozenFor(frozen_utxos, p)
            /\ \A g \in get_utxos(frozen_utxos) :
                  g.utxo = proposals[p].input => g.frozen)
  /\ [][\A e \in relay :
          ( /\ e.kind = "proposal"
            /\ EventId(e) \notin DOMAIN events /\ EventId(e) \in DOMAIN events'
            /\ proposal_exists(proposals, e.pid) ) =>
             /\ proposals'[e.pid] = proposals[e.pid]
             /\ e.input \in FrozenFor(frozen_utxos', e.pid)]_vars

\* C35 witness: a proposal that spend wrote into the index was saved again
\* from its event (the event is indexed, no notification was raised for it),
\* and its input is frozen for it.
C35_Witness ==
  \E p \in ProposalIds :
     /\ proposal_exists(proposals, p)
     /\ proposals[p].eid \in DOMAIN events
     /\ proposals[p].eid \notin notifications
     /\ proposals[p].input \in FrozenFor(frozen_utxos, p)
     /\ \E g \in get_utxos(frozen_utxos) : g.utxo = proposals[p].input /\ g.frozen

\* C36: a call of accept_shared_signer_invite for an unknown invite, or one
\* whose publish fails, returns an error and leaves the pending invites and
\* the relays as they were; a call that returns Ok has published the event of
\* the invite's shared signer and has removed that invite and no other.
C36_InviteRemovedOnlyAfterPublish ==
  [][\A id \in InviteIdentifiers, signerOk \in BOOLEAN, sendOk \in BOOLEAN :
        AcceptSharedSignerInvite(id, signerOk, sendOk) =>
          /\ ret'.op = "accept_shared_signer_invite"
          /\ (id \notin DOMAIN shared_signer_invites \/ ~sendOk) => ret'.result # "Ok"
          /\ IF ret'.result = "Ok"
             THEN /\ \E e \in relay' \ relay :
                       /\ e.kind = "shared_signer"
                       /\ e.shared_signer = shared_signer_invites[id].shared_signer
                  /\ id \notin DOMAIN shared_signer_invites'
                  /\ shared_signer_invites'
                        = delete_shared_signer_invite(shared_signer_invites, id)
             ELSE /\ ret'.result \in {"SignerNotConfigured", "NotFound", "SendError"}
                  /\ UNCHANGED <<shared_signer_invites, relay>>]_vars

\* C36 witness: an invite was accepted, its shared signer is published and
\* it is no longer pending, while another invite is still pending.
C36_Witness ==
  /\ ret.op = "accept_shared_signer_invite" /\ ret.result = "Ok"
  /\ DOMAIN shared_signer_invites # {}
  /\ \E e \in relay :
       /\ e.kind = "shared_signer"
       /\ nostr_public_identifier(e.shared_signer) \notin DOMAIN shared_signer_invites
       /\ \E w \in DOMAIN events :
             /\ w.kind = "wrapper" /\ w.content.type = "SharedSignerInvite"
             /\ w.content.shared_signer = e.shared_signer

\* C37: a call of Store::delete_signer marks the signer's event deleted when
\* the store holds it, removes the signer and every row of my_shared_signers
\* with its signer_id, and leaves the other events, the other signers, the
\* shares of the other signers and the shared signers received from other
\* owners as they were.
C37_DeleteSignerFrame ==
  [][\A signer \in StoredSigners :
        LET signer_id == EventId(SignerEvent(signer, 1)) IN
        DeleteSigner(signer_id) =>
          /\ DOMAIN events' = DOMAIN events
          /\ \A i \in DOMAIN events :
                events'[i] = IF i = signer_id THEN [events[i] EXCEPT !.deleted = TRUE]
                             ELSE events[i]
          /\ DOMAIN signers' = DOMAIN signers \ {signer_id}
          /\ \A i \in DOMAIN signers' : signers'[i] = signers[i]
          /\ \A r \in my_shared_signers :
                r \in my_shared_signers' <=> r.signer_id # signer_id
          /\ my_shared_signers' \subseteq my_shared_signers
          /\ shared_signers' = shared_signers]_vars

\* C37 witness: a signer that had been shared was deleted: its event is
\* marked deleted, the signer and its share are gone although the event of
\* the share is in the store, and another signer, a share of that signer and
\* a shared signer received from another user are still there.
C37_Witness ==
  /\ ret.op = "delete_signer"
  /\ \E e \in DOMAIN events :
       /\ e.kind = "signer" /\ events[e].deleted
       /\ e \notin DOMAIN signers
       /\ \E h \in DOMAIN events : h.kind = "my_shared_signer" /\ h.signer_id = e
       /\ ~\E r \in my_shared_signers : r.signer_id = e
  /\ DOMAIN signers # {}
  /\ my_shared_signers # {}
  /\ shared_signers # {}

\* descriptor d passes for the signer of the last call: it has the signer's
\* master fingerprint and a derivation path whose second component is
\* hardened 0 on mainnet, hardened 1 on another network
Passes(d) ==
  /\ d.master_fingerprint = core_signer.fingerprint
  /\ d.full_derivation_path.some
  /\ Len(d.full_derivation_path.path) >= 2
  /\ d.full_derivation_path.path[2]
        = [hardened |-> TRUE, index |-> IF core_signer.network = "bitcoin" THEN 0 ELSE 1]

\* the positions of the descriptors of the last call that do not pass
Offending == {i \in 1..Len(core_signer.descriptors) : ~Passes(core_signer.descriptors[i])}

\* C38: CoreSigner::new returns Ok, with the signer of the fingerprint and
\* the descriptors it was given, exactly when every descriptor passes;
\* otherwise it builds no signer and returns the error of the first
\* descriptor that does not pass: FingerprintNotMatch when its fingerprint
\* differs, else DerivationPathNotFound when it has no derivation path, else
\* NetworkNotMatch.
C38_CoreSignerNew ==
  core_signer.called =>
    IF Offending = {}
    THEN /\ core_signer.result = "Ok"
         /\ core_signer.signer = [fingerprint |-> core_signer.fingerprint,
                                  descriptors |-> core_signer.descriptors]
    ELSE LET d == core_signer.descriptors[CHOOSE i \in Offending : \A j \in Offending : i <= j]
         IN /\ core_signer.signer = NoSigner
            /\ core_signer.result =
                  IF d.master_fingerprint # core_signer.fingerprint THEN "FingerprintNotMatch"
                  ELSE IF ~d.full_derivation_path.some THEN "DerivationPathNotFound"
                  ELSE "NetworkNotMatch"

\* C38 witness: the first descriptor passes on testnet and the second, with
\* another fingerprint and no derivation path, is rejected for its
\* fingerprint.
C38_Witness ==
  /\ core_signer.called /\ core_signer.network = "testnet"
  /\ Len(core_signer.descriptors) = 2
  /\ Offending = {2}
  /\ ~core_signer.descriptors[2].full_derivation_path.some
  /\ core_signer.descriptors[2].master_fingerprint # core_signer.fingerprint
  /\ core_signer.result = "FingerprintNotMatch"
  /\ core_signer.signer = NoSigner

\* C39: the breadcrumb holds no stage twice and, when it is not empty, it
\* ends with the current stage; set_stage to a stage of the breadcrumb cuts
\* the breadcrumb after the place of that stage, set_stage to another stage
\* appends it, and reset_breadcrumb empties the breadcrumb and keeps the stage.
C39_BreadcrumbHasNoDuplicates ==
  /\ [](/\ \A i, j \in 1..Len(ctx.breadcrumb) :
              ctx.breadcrumb[i] = ctx.breadcrumb[j] => i = j
        /\ ctx.breadcrumb # <<>> => ctx.breadcrumb[Len(ctx.breadcrumb)] = ctx.stage)
  /\ [][\A stage \in Stages :
          SetStage(stage) =>
            /\ ctx'.stage = stage
            /\ IF \E k \in 1..Len(ctx.breadcrumb) : ctx.breadcrumb[k] = stage
               THEN \E k \in 1..Len(ctx.breadcrumb) :
                       /\ ctx.breadcrumb[k] = stage
                       /\ ctx'.breadcrumb = SubSeq(ctx.breadcrumb, 1, k)
               ELSE ctx'.breadcrumb = ctx.breadcrumb \o <<stage>>]_vars
  /\ [][ResetBreadcrumb => ctx'.breadcrumb = <<>> /\ ctx'.stage = ctx.stage]_vars

\* C39 witness: after a reset, set_stage was called with a stage that was
\* already in the breadcrumb, and the breadcrumb ends with that stage, two
\* stages deep.
C39_Witness ==
  /\ ret = [op |-> "set_stage", pid |-> 0, result |-> "contained"]
  /\ Len(ctx.breadcrumb) = 2
  /\ ctx.breadcrumb[2] = ctx.stage
  /\ ctx.breadcrumb[1] # Stage_default

====
